---- MODULE Spec2Model ----
(***************************************************************************)
(* Hours Tracker client (src/static/app.js, src/unnamed/part_000) and its  *)
(* server (src/unnamed/part_001).                                          *)
(*                                                                         *)
(* Eight specifications share the variables of this module:                *)
(*   Spec      the Session Manager: in-memory session list, the            *)
(*             localStorage cache, the remote store, requests in flight;   *)
(*   NetSpec   calculateNetMinutes applied to enumerated inputs;           *)
(*   FileSpec  the File & Folder Manager on the files the device holds:    *)
(*             file metadata, folders, localStorage copies of both, the    *)
(*             IndexedDB blob store, the selection; no upload in progress; *)
(*   FairFileSpec  FileSpec, with every put of a migration answered;       *)
(*   UploadSpec  the upload of files (handleFiles) and the handlers that   *)
(*             can run while files are being read and stored.              *)
(*   PushSpec  the Session Manager with requests that overlap;             *)
(*   ServerSpec  the server: registration and the /api/data endpoints,     *)
(*             the steps of concurrent requests interleaved;               *)
(*   DeviceSpec  the page and the login page on a device two accounts use. *)
(*                                                                         *)
(* Representation choices:                                                 *)
(*   - an "HH:MM" string is the pair <<HH, MM>> of its fields, the empty   *)
(*     string is <<>>;                                                     *)
(*   - the text of a numeric form field is <<n>>, an empty or non-numeric  *)
(*     field is <<>>;                                                      *)
(*   - a localStorage value is a record [kind, val]: kind "null" for a     *)
(*     missing key, "json" for the JSON text of val, "text" for a string   *)
(*     JSON.parse rejects;                                                 *)
(*   - ids built from Date.now() and Math.random() are fresh naturals.     *)
(***************************************************************************)
EXTENDS Integers, Sequences, FiniteSets, TLC

VARIABLES
    \* ---- Session Manager (app.js:17-20, localStorage, server) ----
    sessions,          \* let sessions = []                      app.js:17
    editingSessionId,  \* let editingSessionId = null            app.js:20
    cache,             \* localStorage[STORAGE_KEY]              app.js:4
    remote,            \* kv user:<id> {sessions, totalHours}    part_001
    pushes,            \* POST /api/data requests in flight
    load,              \* the GET /api/data request of loadData
    nextId,            \* source of fresh session ids
    lastEvent,         \* history: outcome of the last handler
    uncaught,          \* history: an exception escaped a handler
    downloads,         \* the files the browser saved from a.click()
    \* ---- calculateNetMinutes harness ----
    netArgs,           \* <<startStr, endStr, breakMinutes>>
    netResult,         \* <<>> before the call, <<value returned>> after it
    \* ---- File & Folder Manager (app.js:21-24, localStorage, IndexedDB) ----
    uploadedFiles,     \* let uploadedFiles = []                app.js:21
    folders,           \* let folders = []                      app.js:22
    currentFolder,     \* let currentFolder = null              app.js:23
    filesStored,       \* localStorage[FILES_STORAGE_KEY]
    foldersStored,     \* localStorage[FOLDERS_STORAGE_KEY]
    db,                \* let db = null: TRUE once the store is open
    blobs,             \* object store "files": file id -> bytes
    batch,             \* the handleFiles call whose files are unsettled
    migrating,         \* migrateLegacyFile calls awaiting their put
    nextFileId,        \* source of fresh file ids
    clock,             \* Date.now() of the last folder created
    selectedFiles,     \* let selectedFiles = new Set()         app.js:24
    fileEvent,         \* history: what the last file handler did
    \* ---- Accounts (app.js:14, part_001:94-338) ----
    currentUser,       \* let currentUser = null: userId after checkAuth
    kv,                \* the server's key-value store (@vercel/kv)
    requests           \* the server's requests: in progress, and answered

sessVars == <<sessions, editingSessionId, cache, remote, pushes, load, nextId,
              lastEvent, uncaught, downloads>>
netVars == <<netArgs, netResult>>
fileVars == <<uploadedFiles, folders, currentFolder, filesStored, foldersStored,
              db, blobs, batch, migrating, nextFileId, clock, selectedFiles,
              fileEvent>>
userVars == <<currentUser, kv, requests>>
vars == <<sessVars, downloads, netVars, fileVars, userVars>>

----------------------------------------------------------------------------
\* Bounds of the model.
MaxIds == 1
MaxInflight == 1
MaxOverlap == 2

\* A value that is no session id (editingSessionId = null).
NoId == 0 - 1

----------------------------------------------------------------------------
\* localStorage values and JSON.

Absent == [kind |-> "null", val |-> <<>>]

Garbage == [kind |-> "text", val |-> <<>>]

JSONstringify(v) == [kind |-> "json", val |-> v]

\* JSON.parse throws a SyntaxError on text that is not JSON.
JSONparseThrows(stored) == stored.kind # "json"

JSONparse(stored) == stored.val

----------------------------------------------------------------------------
\* Pure helpers of the Session Manager.

Max(a, b) == IF a >= b THEN a ELSE b

\* parseInt(field.value) || 0
parseIntOr0(raw) == IF raw = <<>> THEN 0 ELSE raw[1]

\* [h, m] = str.split(':').map(Number); h * 60 + m
TotalMin(str) == str[1] * 60 + str[2]

calculateNetMinutes_ignoresBreak(startStr, endStr, breakMinutes) ==
    IF startStr = <<>> \/ endStr = <<>> THEN 0
    ELSE IF TotalMin(endStr) <= TotalMin(startStr) THEN 0
    ELSE TotalMin(endStr) - TotalMin(startStr)

calculateNetMinutes_noFloor(startStr, endStr, breakMinutes) ==
    IF startStr = <<>> \/ endStr = <<>> THEN 0
    ELSE IF TotalMin(endStr) <= TotalMin(startStr) THEN 0
    ELSE TotalMin(endStr) - TotalMin(startStr) - breakMinutes

calculateNetMinutes(startStr, endStr, breakMinutes) ==
    IF startStr = <<>> \/ endStr = <<>> THEN 0
    ELSE LET startTotalMin == TotalMin(startStr)
             endTotalMin == TotalMin(endStr)
         IN IF endTotalMin <= startTotalMin THEN 0
            ELSE Max(0, (endTotalMin - startTotalMin) - breakMinutes)

Ids(list) == {list[i].id : i \in 1..Len(list)}

RECURSIVE SumNetHours(_)
\* sessions.reduce((sum, s) => sum + (s.netHours || 0), 0)
SumNetHours(list) ==
    IF list = <<>> THEN 0
    ELSE (IF "netHours" \in DOMAIN Head(list) THEN Head(list).netHours ELSE 0)
         + SumNetHours(Tail(list))

\* The body of POST /api/data built by saveData.
PostBody(list) == [sessions |-> list, totalHours |-> SumNetHours(list)]

\* sessions.filter(s => s.id !== id)
WithoutId(list, id) == SelectSeq(list, LAMBDA s : s.id # id)

\* sessions.find(s => s.id === id) as an index, 0 when there is none.
FindIndex(list, id) ==
    IF id \in Ids(list)
    THEN CHOOSE i \in 1..Len(list) :
             /\ list[i].id = id
             /\ \A j \in 1..(i - 1) : list[j].id # id
    ELSE 0

----------------------------------------------------------------------------
\* Inputs.

ScenarioDate == "2024-03-01"

\* What the add form can hold on submit: Scenario A, Scenario B (start 09:00,
\* end 08:00), a form with each required field left empty, and a break longer
\* than the interval.
AddForms ==
    { <<ScenarioDate, <<8, 30>>, <<17, 0>>, <<30>>>>,
      <<ScenarioDate, <<9, 0>>, <<8, 0>>, <<30>>>>,
      <<"", <<8, 30>>, <<17, 0>>, <<30>>>>,
      <<ScenarioDate, <<>>, <<17, 0>>, <<30>>>>,
      <<ScenarioDate, <<8, 30>>, <<>>, <<30>>>>,
      <<ScenarioDate, <<8, 30>>, <<17, 0>>, <<600>>>> }

\* What the edit form can hold on submit: a valid interval and a reversed one.
EditForms ==
    { <<ScenarioDate, <<8, 30>>, <<17, 0>>, <<30>>>>,
      <<ScenarioDate, <<17, 0>>, <<8, 30>>, <<30>>>> }

\* The session of an earlier export: the first one ever created, as created.
ExportedSession ==
    [id |-> 1, date |-> ScenarioDate, startTime |-> <<8, 30>>,
     endTime |-> <<17, 0>>, breakMinutes |-> 30, note |-> "",
     category |-> "Internship", netMinutes |-> 480]

\* What JSON.parse of the chosen file yields: an object with a sessions array,
\* a bare array, an object without one, or a SyntaxError. A file holds only
\* sessions that were created before it was written.
ImportFiles ==
    { file \in
        { [shape |-> "object", list |-> <<ExportedSession>>],
          [shape |-> "array", list |-> <<ExportedSession>>],
          [shape |-> "array", list |-> <<>>],
          [shape |-> "other", list |-> <<>>],
          [shape |-> "unparsable", list |-> <<>>] } :
        \A id \in {file.list[i].id : i \in 1..Len(file.list)} : id < nextId }

----------------------------------------------------------------------------
\* Session Manager: persistence.

saveData_pushOnly(list) ==
    /\ pushes' = pushes \cup {PostBody(list)}
    /\ UNCHANGED cache

\* saveData (app.js:216-242) up to its first suspension: the localStorage
\* write, then the POST request leaves with the list as it is now.
saveData(list) ==
    /\ cache' = JSONstringify(list)
    /\ pushes' = pushes \cup {PostBody(list)}

\* The ids of the cached list, none when the key is missing or unparsable.
CacheIds(stored) == IF stored.kind = "json" THEN Ids(stored.val) ELSE {}

\* The ids carried by the POST requests in flight.
PushIds(reqs) == UNION {Ids(b.sessions) : b \in reqs}

\* History: the ids saved on the device that the remote store does not hold
\* and that no request in flight carries (their POST failed).
LocalOnly == CacheIds(cache) \ (Ids(remote.sessions) \cup PushIds(pushes))

\* Guard that caps the requests in flight once a step is taken: a handler
\* that would start one request too many is not run.
UnderCap(max) == Cardinality(pushes') <= max

\* POST /api/data (part_001:264-293) handles one request: the record of the
\* user is overwritten with the body. saveData only logs the response.
ServerPost(b) ==
    /\ b \in pushes
    /\ remote' = [sessions |-> b.sessions, totalHours |-> b.totalHours]
    /\ pushes' = pushes \ {b}
    /\ lastEvent' = "other"
    /\ UNCHANGED <<sessions, editingSessionId, cache, load, nextId, uncaught, downloads, netVars, userVars, fileVars>>

\* What a request to /api/data can end with other than success: the fetch
\* rejects (NetworkError), authenticateToken answers 401 without a token and
\* 403 with an invalid or expired one (part_001:49-64), the handler answers
\* 500 (part_001:258-260, 290-292).
NetworkError == 0

AuthFailures == {401, 403}

Failures == {NetworkError, 500} \cup AuthFailures

\* The POST fails with a status of Failures: saveData logs a warning
\* (app.js:231-238) whatever the status and changes nothing.
saveDataFailed(b, status) ==
    /\ b \in pushes
    /\ status \in Failures
    /\ pushes' = pushes \ {b}
    /\ lastEvent' = "pushFailed"
    /\ UNCHANGED <<sessions, editingSessionId, cache, remote, load, nextId,
                   uncaught, downloads, netVars, userVars, fileVars>>

\* GET /api/data (part_001:242-261) answers the request of loadData with the
\* stored sessions.
ServerGet ==
    /\ load.st = "sent"
    /\ load' = [load EXCEPT !.st = "ok", !.sessions = remote.sessions]
    /\ lastEvent' = "other"
    /\ UNCHANGED <<sessions, editingSessionId, cache, remote, pushes, nextId,
                   uncaught, downloads, netVars, userVars, fileVars>>

Idle == [st |-> "idle", sessions |-> <<>>, pending |-> {}]

loadDataOk_noCache ==
    /\ load.st = "ok"
    /\ sessions' = load.sessions
    /\ load' = Idle
    /\ lastEvent' = "loadedRemote"
    /\ UNCHANGED <<editingSessionId, cache, remote, pushes, nextId, uncaught, downloads, netVars, userVars, fileVars>>

\* loadData resumes with an ok response (app.js:191-198): result.data.sessions
\* is always an array, and an array is truthy.
loadDataOk ==
    /\ load.st = "ok"
    /\ sessions' = load.sessions
    /\ cache' = JSONstringify(load.sessions)
    /\ load' = Idle
    /\ lastEvent' = "loadedRemote"
    /\ UNCHANGED <<editingSessionId, remote, pushes, nextId, uncaught, downloads, netVars, userVars, fileVars>>

loadDataFallback_noInnerTry(status) ==
    /\ load.st \in {"sent", "ok"}
    /\ status \in Failures
    /\ load' = Idle
    /\ IF cache.kind = "null" THEN UNCHANGED <<sessions, uncaught>>
       ELSE IF JSONparseThrows(cache)
            THEN /\ uncaught' = TRUE
                 /\ UNCHANGED sessions
            ELSE /\ sessions' = JSONparse(cache)
                 /\ UNCHANGED uncaught
    /\ lastEvent' = "loadedFallback"
    /\ UNCHANGED <<editingSessionId, cache, remote, pushes, nextId, downloads, netVars, userVars, fileVars>>

\* loadData's catch block (app.js:199-212): the fetch rejected or the response
\* was not ok, with a status of Failures that only the logged message
\* carries. The cached copy is read; a missing key leaves sessions as it is.
loadDataFallback(status) ==
    /\ load.st \in {"sent", "ok"}
    /\ status \in Failures
    /\ load' = Idle
    /\ IF cache.kind = "null" THEN UNCHANGED sessions
       ELSE IF JSONparseThrows(cache) THEN sessions' = <<>>
            ELSE sessions' = JSONparse(cache)
    /\ lastEvent' = "loadedFallback"
    /\ UNCHANGED <<editingSessionId, cache, remote, pushes, nextId, uncaught, downloads, netVars, userVars, fileVars>>

\* The page is loaded again: the script's variables start over (app.js:17-20)
\* and the DOMContentLoaded handler calls loadData (app.js:113). Requests the
\* old page had in flight may still reach the server.
Reload ==
    /\ sessions' = <<>>
    /\ editingSessionId' = NoId
    /\ load' = [st |-> "sent", sessions |-> <<>>, pending |-> LocalOnly]
    /\ lastEvent' = "other"
    /\ UNCHANGED <<cache, remote, pushes, nextId, uncaught, downloads, netVars, userVars, fileVars>>

----------------------------------------------------------------------------
\* Session Manager: the handlers of the user's actions.

NewSession(date, startTime, endTime, breakMinutes, netMinutes) ==
    [id |-> nextId, date |-> date, startTime |-> startTime,
     endTime |-> endTime, breakMinutes |-> breakMinutes, note |-> "",
     category |-> "Internship", netMinutes |-> netMinutes]

saveSession_noValidation(date, startTime, endTime, breakField) ==
    LET breakMinutes == parseIntOr0(breakField)
        netMinutes == calculateNetMinutes(startTime, endTime, breakMinutes)
        session == NewSession(date, startTime, endTime, breakMinutes, netMinutes)
    IN /\ nextId <= MaxIds
       /\ sessions' = Append(sessions, session)
       /\ saveData(sessions')
       /\ nextId' = nextId + 1
       /\ lastEvent' = "added"
       /\ UNCHANGED <<editingSessionId, remote, load, uncaught, downloads, netVars, userVars, fileVars>>

\* saveSession (app.js:451-486): the add form is submitted.
saveSession(date, startTime, endTime, breakField) ==
    LET breakMinutes == parseIntOr0(breakField)
        netMinutes == calculateNetMinutes(startTime, endTime, breakMinutes)
        session == NewSession(date, startTime, endTime, breakMinutes, netMinutes)
    IN IF date = "" \/ startTime = <<>> \/ endTime = <<>> \/ netMinutes <= 0
       THEN /\ lastEvent' = "addRejected"
            /\ UNCHANGED <<sessions, editingSessionId, cache, remote, pushes,
                           load, nextId, uncaught,
                           downloads, netVars, userVars, fileVars>>
       ELSE /\ nextId <= MaxIds
            /\ sessions' = Append(sessions, session)
            /\ saveData(sessions')
            /\ nextId' = nextId + 1
            /\ lastEvent' = "added"
            /\ UNCHANGED <<editingSessionId, remote, load, uncaught, downloads, netVars, userVars, fileVars>>

\* openEditModal (app.js:489-505): a session of the day panel is clicked.
openEditModal(sessionId) ==
    /\ sessionId \in Ids(sessions)
    /\ editingSessionId' = sessionId
    /\ lastEvent' = "other"
    /\ UNCHANGED <<sessions, cache, remote, pushes, load, nextId, uncaught, downloads, netVars, userVars, fileVars>>

\* closeEditModal (app.js:507-510).
closeEditModal ==
    /\ editingSessionId # NoId
    /\ editingSessionId' = NoId
    /\ lastEvent' = "other"
    /\ UNCHANGED <<sessions, cache, remote, pushes, load, nextId, uncaught, downloads, netVars, userVars, fileVars>>

\* The session object after updateSession's assignments (app.js:520-526).
Edited(session, date, startTime, endTime, breakField) ==
    [session EXCEPT
        !.date = date, !.startTime = startTime, !.endTime = endTime,
        !.breakMinutes = parseIntOr0(breakField),
        !.netMinutes = calculateNetMinutes(startTime, endTime,
                                           parseIntOr0(breakField))]

\* updateSession (app.js:512-540): the edit form is submitted. The fields are
\* assigned to the session object of the list before netMinutes is tested.
updateSession(date, startTime, endTime, breakField) ==
    LET i == FindIndex(sessions, editingSessionId)
    IN IF i = 0
       THEN /\ lastEvent' = "other"
            /\ UNCHANGED <<sessions, editingSessionId, cache, remote, pushes,
                           load, nextId, uncaught,
                           downloads, netVars, userVars, fileVars>>
       ELSE LET session == Edited(sessions[i], date, startTime, endTime,
                                  breakField)
            IN /\ sessions' = [sessions EXCEPT ![i] = session]
               /\ IF session.netMinutes <= 0
                  THEN /\ lastEvent' = "updateRejected"
                       /\ UNCHANGED <<editingSessionId, cache, pushes>>
                  ELSE /\ saveData(sessions')
                       /\ editingSessionId' = NoId
                       /\ lastEvent' = "updated"
               /\ UNCHANGED <<remote, load, nextId, uncaught, downloads, netVars, userVars, fileVars>>

\* deleteCurrentSession (app.js:542-555), the confirm dialog accepted.
deleteCurrentSession ==
    /\ editingSessionId # NoId
    /\ sessions' = WithoutId(sessions, editingSessionId)
    /\ saveData(sessions')
    /\ editingSessionId' = NoId
    /\ lastEvent' = "deleted"
    /\ UNCHANGED <<remote, load, nextId, uncaught, downloads, netVars, userVars, fileVars>>

\* importJSON adding the sessions of the file to the list.
importJSON_merges(file) ==
    IF file.shape \in {"object", "array"}
    THEN /\ sessions' = sessions \o file.list
         /\ saveData(sessions')
         /\ lastEvent' = "imported"
         /\ UNCHANGED <<editingSessionId, remote, load, nextId, uncaught, downloads, netVars, userVars, fileVars>>
    ELSE /\ lastEvent' = "importRejected"
         /\ UNCHANGED <<sessions, editingSessionId, cache, remote, pushes,
                        load, nextId, uncaught,
                        downloads, netVars, userVars, fileVars>>

\* importJSON's reader.onload (app.js:732-749).
importJSON(file) ==
    IF file.shape \in {"object", "array"}
    THEN /\ sessions' = file.list
         /\ saveData(sessions')
         /\ lastEvent' = "imported"
         /\ UNCHANGED <<editingSessionId, remote, load, nextId, uncaught, downloads, netVars, userVars, fileVars>>
    ELSE /\ lastEvent' = "importRejected"
         /\ UNCHANGED <<sessions, editingSessionId, cache, remote, pushes,
                        load, nextId, uncaught,
                        downloads, netVars, userVars, fileVars>>

\* clearAllData (app.js:779-790), both confirm dialogs accepted.
clearAllData ==
    /\ sessions' = <<>>
    /\ cache' = Absent
    /\ lastEvent' = "other"
    /\ UNCHANGED <<editingSessionId, remote, pushes, load, nextId, uncaught, downloads, netVars, userVars, fileVars>>

----------------------------------------------------------------------------
\* File & Folder Manager: values.
\*   - a file id is <<"file", n>>, a folder id is <<"folder_", t>> with t the
\*     value of Date.now(); null (the root, no folder) is <<>>;
\*   - a file record is [id, name, parentId, data]; data is the inline base64
\*     text of a legacy record and NoData when the field is undefined or
\*     missing (JSON.stringify drops an undefined field);
\*   - the base64 text of bytes b is <<"base64", b>>;
\*   - a file name "base.ext" is <<"base", "ext">>.

\* Bounds of the model.
MaxFileIds == 2
MaxFolders == 2
MaxClock == 2

\* 200 * 1024 * 1024, the largest file handleFiles accepts.
MaxUploadBytes == 209715200

Root == <<>>

NoData == <<>>

Base64Of(bytes) == <<"base64", bytes>>

\* base64toBlob (app.js:1558-1566): atob, then the bytes as a Blob.
base64toBlob(base64) == base64[2]

\* file.data && typeof file.data === 'string' && file.data.length > 0
HasLegacyData(file) == file.data # NoData

\* A record written by the version that kept the payload in localStorage.
LegacyFile ==
    [id |-> <<"file", 0>>, name |-> <<"old", "pdf">>, parentId |-> Root,
     data |-> Base64Of("old bytes")]

\* The files the user can drop on the page: a 5-byte file, a file of exactly
\* the limit and one a byte over it.
SmallFile == [name |-> <<"a", "txt">>, size |-> 5, bytes |-> "hello"]

LimitFile == [name |-> <<"max", "pdf">>, size |-> MaxUploadBytes,
              bytes |-> "max bytes"]

LargeFile == [name |-> <<"big", "pdf">>, size |-> MaxUploadBytes + 1,
              bytes |-> "big bytes"]

\* A record of a file stored by an earlier upload of SmallFile.
StoredFile ==
    [id |-> <<"file", 1>>, name |-> SmallFile.name, parentId |-> Root,
     data |-> NoData]

\* The FileLists handleFiles is called with: one file; two files that are
\* both accepted; a file over the limit followed by an accepted one.
\* A folder created at the root by an earlier visit.
StoredFolder == [id |-> <<"folder_", 1>>, name |-> "docs", parentId |-> Root]

DroppedFiles == {<<SmallFile>>, <<SmallFile, LimitFile>>, <<LargeFile, SmallFile>>}

\* The folder names the create-folder dialog can hold, before trim().
FolderNames == {"docs", ""}

FileIds(list) == {list[i].id : i \in DOMAIN list}

FolderIds(list) == {list[i].id : i \in DOMAIN list}

\* uploadedFiles.find(f => f.id === fileId) as an index, 0 when there is none.
FindFile(list, fileId) ==
    IF fileId \in FileIds(list)
    THEN CHOOSE i \in DOMAIN list : list[i].id = fileId
    ELSE 0

\* The object saveFiles writes for a file (app.js:864-871): data is left out.
Metadata(f) == [id |-> f.id, name |-> f.name, parentId |-> f.parentId,
                data |-> NoData]

\* The object store: the bytes under a key, and whether the key is there.
HasBlob(store, fileId) == \E b \in store : b.id = fileId

\* store.put({id, data}) replaces the entry of the key.
PutBlob(store, fileId, bytes) ==
    {b \in store : b.id # fileId} \cup {[id |-> fileId, data |-> bytes]}

\* The ids of the folders whose parentId is p.
ChildrenOf(p, list) == {list[i].id : i \in {j \in DOMAIN list : list[j].parentId = p}}

\* The folders deleteContents is called on, n levels down from those of S.
RECURSIVE Visited(_, _, _)
Visited(S, list, n) ==
    IF n = 0 THEN S
    ELSE Visited(S \cup UNION {ChildrenOf(p, list) : p \in S}, list, n - 1)

----------------------------------------------------------------------------
\* File & Folder Manager: persistence.

\* saveFiles (app.js:857-882).
saveFiles(files, flds) ==
    /\ foldersStored' = JSONstringify(flds)
    /\ filesStored' = JSONstringify([i \in DOMAIN files |-> Metadata(files[i])])

\* What loadFiles (app.js:818-855) makes of a stored list on a fresh page.
Loaded(stored) ==
    IF stored.kind = "null" \/ JSONparseThrows(stored) THEN <<>>
    ELSE JSONparse(stored)

\* History: the handler that ran last and a count it reported or removed.
Event(op, n) == [op |-> op, n |-> n]

\* startedIn is history: the folder that was current when handleFiles ran.
NoBatch == [files |-> <<>>, processed |-> 0, success |-> 0,
            reading |-> {}, writing |-> {}, startedIn |-> Root]

\* loadFiles with one try block around both JSON.parse calls: a value that
\* does not parse empties both lists.
FileReload_resetsBoth ==
    /\ uploadedFiles' = IF JSONparseThrows(foldersStored) /\ foldersStored.kind # "null"
                        THEN <<>> ELSE Loaded(filesStored)
    /\ folders' = IF JSONparseThrows(filesStored) /\ filesStored.kind # "null"
                  THEN <<>> ELSE Loaded(foldersStored)
    /\ currentFolder' = Root
    /\ db' \in BOOLEAN
    /\ batch' = NoBatch
    /\ migrating' = {}
    /\ selectedFiles' = {}
    /\ fileEvent' = Event("loadFiles", 0)
    /\ UNCHANGED <<filesStored, foldersStored, blobs, nextFileId, clock,
                   sessVars, netVars, userVars>>

\* The page is loaded again: the variables start over (app.js:13, 21-23),
\* initIndexedDB opens the store or fails (app.js:104-110), loadFiles reads
\* both lists (app.js:114). Callbacks of the old page are gone.
FileReload ==
    /\ uploadedFiles' = Loaded(filesStored)
    /\ folders' = Loaded(foldersStored)
    /\ currentFolder' = Root
    /\ db' \in BOOLEAN
    /\ batch' = NoBatch
    /\ migrating' = {}
    /\ selectedFiles' = {}
    /\ fileEvent' = Event("loadFiles", 0)
    /\ UNCHANGED <<filesStored, foldersStored, blobs, nextFileId, clock,
                   sessVars, netVars, userVars>>

----------------------------------------------------------------------------
\* File & Folder Manager: the handlers.

\* The batch once a file of it has settled: the counters of a batch with no
\* file left unsettled are referenced by no callback any more.
Settled(b) == IF b.reading = {} /\ b.writing = {} THEN NoBatch ELSE b

\* filesProcessed === totalFiles && successCount > 0, after the increments.
LastOfBatch(b) == b.processed = Len(b.files) /\ b.success > 0

\* handleFiles with >= in the size test: a file of exactly the limit is
\* skipped.
handleFiles_rejectsAtLimit(files) ==
    /\ batch = NoBatch
    /\ LET tooLarge == {i \in DOMAIN files : files[i].size >= MaxUploadBytes}
       IN /\ batch' = Settled([files |-> files, processed |-> Cardinality(tooLarge),
                               success |-> 0, reading |-> DOMAIN files \ tooLarge,
                               writing |-> {}, startedIn |-> currentFolder])
          /\ fileEvent' = Event("handleFiles", Cardinality(tooLarge))
    /\ UNCHANGED <<uploadedFiles, folders, currentFolder, filesStored,
                   foldersStored, db, blobs, migrating, nextFileId, clock,
                   selectedFiles, sessVars, netVars, userVars>>

\* handleFiles (app.js:1067-1149) up to the end of its loop: a file over the
\* limit is counted as processed, a reader is started for each of the others.
\* successCount is 0 throughout the loop, so saveFiles is not reached here.
handleFiles(files) ==
    /\ batch = NoBatch
    /\ LET tooLarge == {i \in DOMAIN files : files[i].size > MaxUploadBytes}
       IN batch' = Settled([files |-> files, processed |-> Cardinality(tooLarge),
                            success |-> 0, reading |-> DOMAIN files \ tooLarge,
                            writing |-> {}, startedIn |-> currentFolder])
          /\ fileEvent' = Event("handleFiles", Cardinality(tooLarge))
    /\ UNCHANGED <<uploadedFiles, folders, currentFolder, filesStored,
                   foldersStored, db, blobs, migrating, nextFileId, clock,
                   selectedFiles, sessVars, netVars, userVars>>

\* reader.onload (app.js:1087-1135) up to its await: the record is built with
\* the folder that is current now; without a store the catch block runs.
readerOnload(i) ==
    /\ i \in batch.reading
    /\ nextFileId <= MaxFileIds
    /\ nextFileId' = nextFileId + 1
    /\ LET fileObj == [id |-> <<"file", nextFileId>>, name |-> batch.files[i].name,
                       parentId |-> currentFolder, data |-> NoData]
           failed == [batch EXCEPT !.reading = @ \ {i}, !.processed = @ + 1]
       IN IF ~db
          THEN /\ batch' = Settled(failed)
               /\ fileEvent' = Event("storeUnavailable", 0)
               /\ IF LastOfBatch(failed) THEN saveFiles(uploadedFiles, folders)
                  ELSE UNCHANGED <<filesStored, foldersStored>>
          ELSE /\ batch' = [batch EXCEPT !.reading = @ \ {i},
                              !.writing = @ \cup {[i |-> i, fileObj |-> fileObj]}]
               /\ fileEvent' = Event("readerOnload", 0)
               /\ UNCHANGED <<filesStored, foldersStored>>
    /\ UNCHANGED <<uploadedFiles, folders, currentFolder, db, blobs, migrating,
                   clock, selectedFiles, sessVars, netVars, userVars>>

\* reader.onerror (app.js:1137-1144).
readerOnerror(i) ==
    /\ i \in batch.reading
    /\ LET failed == [batch EXCEPT !.reading = @ \ {i}, !.processed = @ + 1]
       IN /\ batch' = Settled(failed)
          /\ IF LastOfBatch(failed) THEN saveFiles(uploadedFiles, folders)
             ELSE UNCHANGED <<filesStored, foldersStored>>
    /\ fileEvent' = Event("readFailed", 0)
    /\ UNCHANGED <<uploadedFiles, folders, currentFolder, db, blobs, migrating,
                   nextFileId, clock, selectedFiles, sessVars, netVars, userVars>>

\* uploadStored with the file of the loop captured by a variable the
\* callbacks share: every callback sees the last file of the list.
uploadStored_lastFileBytes(w) ==
    /\ w \in batch.writing
    /\ blobs' = PutBlob(blobs, w.fileObj.id, batch.files[Len(batch.files)].bytes)
    /\ uploadedFiles' = Append(uploadedFiles, w.fileObj)
    /\ LET done == [batch EXCEPT !.writing = @ \ {w}, !.processed = @ + 1,
                                 !.success = @ + 1]
       IN /\ batch' = Settled(done)
          /\ IF LastOfBatch(done)
             THEN /\ saveFiles(uploadedFiles', folders)
                  /\ fileEvent' = Event("uploadReported", done.success)
             ELSE /\ UNCHANGED <<filesStored, foldersStored>>
                  /\ fileEvent' = Event("uploadStored", 0)
    /\ UNCHANGED <<folders, currentFolder, db, migrating, nextFileId, clock,
                   selectedFiles, sessVars, netVars, userVars>>

\* The put of saveFileToIndexedDB succeeds (app.js:904-907) and reader.onload
\* resumes (app.js:1113-1126): the record joins the list; the last file of the
\* batch persists the metadata and reports the number of files stored.
uploadStored(w) ==
    /\ w \in batch.writing
    /\ blobs' = PutBlob(blobs, w.fileObj.id, batch.files[w.i].bytes)
    /\ uploadedFiles' = Append(uploadedFiles, w.fileObj)
    /\ LET done == [batch EXCEPT !.writing = @ \ {w}, !.processed = @ + 1,
                                 !.success = @ + 1]
       IN /\ batch' = Settled(done)
          /\ IF LastOfBatch(done)
             THEN /\ saveFiles(uploadedFiles', folders)
                  /\ fileEvent' = Event("uploadReported", done.success)
             ELSE /\ UNCHANGED <<filesStored, foldersStored>>
                  /\ fileEvent' = Event("uploadStored", 0)
    /\ UNCHANGED <<folders, currentFolder, db, migrating, nextFileId, clock,
                   selectedFiles, sessVars, netVars, userVars>>

\* uploadFailed with the record pushed before the put was awaited: the record
\* of a file whose put fails is in the list.
uploadFailed_keepsRecord(w) ==
    /\ w \in batch.writing
    /\ uploadedFiles' = Append(uploadedFiles, w.fileObj)
    /\ LET failed == [batch EXCEPT !.writing = @ \ {w}, !.processed = @ + 1]
       IN /\ batch' = Settled(failed)
          /\ IF LastOfBatch(failed) THEN saveFiles(uploadedFiles', folders)
             ELSE UNCHANGED <<filesStored, foldersStored>>
    /\ fileEvent' = Event("uploadFailed", 0)
    /\ UNCHANGED <<folders, currentFolder, db, blobs, migrating,
                   nextFileId, clock, selectedFiles, sessVars, netVars, userVars>>

\* The put fails (app.js:908-916) and the catch block of reader.onload runs
\* (app.js:1127-1134).
uploadFailed(w) ==
    /\ w \in batch.writing
    /\ LET failed == [batch EXCEPT !.writing = @ \ {w}, !.processed = @ + 1]
       IN /\ batch' = Settled(failed)
          /\ IF LastOfBatch(failed) THEN saveFiles(uploadedFiles, folders)
             ELSE UNCHANGED <<filesStored, foldersStored>>
    /\ fileEvent' = Event("uploadFailed", 0)
    /\ UNCHANGED <<uploadedFiles, folders, currentFolder, db, blobs, migrating,
                   nextFileId, clock, selectedFiles, sessVars, netVars, userVars>>

\* The extensions previewFile opens (app.js:1274).
PreviewExts == {"pdf", "docx", "doc", "xlsx", "xls", "txt", "jpg", "jpeg",
                "png", "gif"}

\* getFileFromIndexedDB (app.js:925-963): <<data>> of the entry of the key,
\* <<>> when the promise rejects (no store, no entry).
getFileFromIndexedDB(store, dbOpen, fileId) ==
    IF dbOpen /\ HasBlob(store, fileId)
    THEN <<(CHOOSE b \in store : b.id = fileId).data>>
    ELSE <<>>

\* The blob previewFile ends up with (app.js:1278-1305): the inline data of a
\* legacy record decoded, else the entry of the store, else none (<<>>).
PreviewBlob(file, store, dbOpen) ==
    IF HasLegacyData(file) THEN <<base64toBlob(file.data)>>
    ELSE getFileFromIndexedDB(store, dbOpen, file.id)

\* previewFile showing the not-found alert for a record without content.
previewFile_missingAsNotFound(fileId) ==
    /\ IF FindFile(uploadedFiles, fileId) = 0
       THEN /\ fileEvent' = Event("notFound", 0)
            /\ UNCHANGED migrating
       ELSE LET file == uploadedFiles[FindFile(uploadedFiles, fileId)]
                blob == PreviewBlob(file, blobs, db)
            IN /\ file.parentId = currentFolder
               /\ IF file.name[2] \notin PreviewExts
                  THEN /\ fileEvent' = Event("previewUnavailable", 0)
                       /\ UNCHANGED migrating
                  ELSE /\ migrating' =
                             IF HasLegacyData(file) /\ db
                             THEN migrating \cup
                                      {[id |-> fileId,
                                        blob |-> base64toBlob(file.data)]}
                             ELSE migrating
                       /\ fileEvent' = Event(IF blob = <<>> THEN "notFound"
                                             ELSE "previewShown", 0)
    /\ UNCHANGED <<uploadedFiles, folders, currentFolder, filesStored,
                   foldersStored, db, blobs, batch, nextFileId, clock,
                   selectedFiles, sessVars, netVars, userVars>>

\* previewFile (app.js:1263-1325) of a file shown in the current folder, or
\* of an id the list has no record of. For a legacy record migrateLegacyFile
\* (app.js:983-1003) runs up to its await; without a store it returns false
\* at once.
previewFile(fileId) ==
    /\ IF FindFile(uploadedFiles, fileId) = 0
       THEN /\ fileEvent' = Event("notFound", 0)
            /\ UNCHANGED migrating
       ELSE LET file == uploadedFiles[FindFile(uploadedFiles, fileId)]
                blob == PreviewBlob(file, blobs, db)
            IN /\ file.parentId = currentFolder
               /\ IF file.name[2] \notin PreviewExts
                  THEN /\ fileEvent' = Event("previewUnavailable", 0)
                       /\ UNCHANGED migrating
                  ELSE /\ migrating' =
                             IF HasLegacyData(file) /\ db
                             THEN migrating \cup
                                      {[id |-> fileId,
                                        blob |-> base64toBlob(file.data)]}
                             ELSE migrating
                       /\ fileEvent' = Event(IF blob = <<>> THEN "dataMissing"
                                             ELSE "previewShown", 0)
    /\ UNCHANGED <<uploadedFiles, folders, currentFolder, filesStored,
                   foldersStored, db, blobs, batch, nextFileId, clock,
                   selectedFiles, sessVars, netVars, userVars>>

\* downloadFile as the page defines it: of the three declarations of the name
\* (app.js:768, 1568, 1584) the last one replaces the others, and it takes the
\* id of an uploaded file. Without a record of that id it shows 'File not
\* found.' (app.js:1585-1589); otherwise the browser saves the content of the
\* file, or nothing when there is none (app.js:1596-1614).
downloadFile(fileId) ==
    IF \A i \in DOMAIN uploadedFiles : uploadedFiles[i].id # fileId
    THEN /\ lastEvent' = "fileNotFound"
         /\ UNCHANGED downloads
    ELSE /\ lastEvent' = "other"
         /\ downloads' = downloads \cup
                {blob[1] : blob \in {PreviewBlob(uploadedFiles[i], blobs, db) :
                                        i \in {j \in DOMAIN uploadedFiles :
                                                   uploadedFiles[j].id = fileId}}
                                     \ {<<>>}}

\* exportJSON (app.js:711-720): the blob of the JSON text of {exportDate,
\* target, sessions} is handed to downloadFile in the place of an id.
exportJSON ==
    /\ downloadFile([shape |-> "object", list |-> sessions])
    /\ UNCHANGED <<sessions, editingSessionId, cache, remote, pushes, load,
                   nextId, uncaught, netVars, userVars, fileVars>>

\* migrationStored without the line that clears data (app.js:1009).
migrationStored_keepsData(m) ==
    /\ m \in migrating
    /\ migrating' = migrating \ {m}
    /\ blobs' = PutBlob(blobs, m.id, m.blob)
    /\ fileEvent' = Event("migrated", 0)
    /\ UNCHANGED <<uploadedFiles, filesStored, foldersStored, folders,
                   currentFolder, db, batch, nextFileId, clock,
                   selectedFiles, sessVars, netVars, userVars>>

\* The put of a migration succeeds and migrateLegacyFile resumes
\* (app.js:1006-1011): data is cleared on the record it looked up, which the
\* list may no longer hold, and the metadata is persisted.
migrationStored(m) ==
    /\ m \in migrating
    /\ migrating' = migrating \ {m}
    /\ blobs' = PutBlob(blobs, m.id, m.blob)
    /\ uploadedFiles' = [i \in DOMAIN uploadedFiles |->
                            IF uploadedFiles[i].id = m.id
                            THEN [uploadedFiles[i] EXCEPT !.data = NoData]
                            ELSE uploadedFiles[i]]
    /\ saveFiles(uploadedFiles', folders)
    /\ fileEvent' = Event("migrated", 0)
    /\ UNCHANGED <<folders, currentFolder, db, batch, nextFileId, clock,
                   selectedFiles, sessVars, netVars, userVars>>

\* The put of a migration fails: migrateLegacyFile returns false
\* (app.js:1013-1016).
migrationFailed(m) ==
    /\ m \in migrating
    /\ migrating' = migrating \ {m}
    /\ fileEvent' = Event("migrationFailed", 0)
    /\ UNCHANGED <<uploadedFiles, folders, currentFolder, filesStored,
                   foldersStored, db, blobs, batch, nextFileId, clock,
                   selectedFiles, sessVars, netVars, userVars>>

\* createFolder (app.js:1721-1738): Date.now() is the time of the last folder
\* or later.
createFolder(rawName, now) ==
    /\ IF rawName = ""
       THEN /\ fileEvent' = Event("createFolderRejected", 0)
            /\ UNCHANGED <<folders, filesStored, foldersStored, clock>>
       ELSE /\ Len(folders) < MaxFolders
            /\ fileEvent' = Event("createFolder", 0)
            /\ folders' = Append(folders, [id |-> <<"folder_", now>>,
                                           name |-> rawName,
                                           parentId |-> currentFolder])
            /\ clock' = now
            /\ saveFiles(uploadedFiles, folders')
    /\ UNCHANGED <<uploadedFiles, currentFolder, db, blobs, batch, migrating,
                   nextFileId, selectedFiles, sessVars, netVars, userVars>>

\* navigateToFolder (app.js:1707-1713) from a folder row of the list or from
\* the breadcrumb (app.js:1684-1705).
navigateToFolder(folderId) ==
    /\ currentFolder' = folderId
    /\ selectedFiles' = {}
    /\ fileEvent' = Event("navigateToFolder", 0)
    /\ UNCHANGED <<uploadedFiles, folders, filesStored, foldersStored, db,
                   blobs, batch, migrating, nextFileId, clock, sessVars, netVars, userVars>>

\* deleteFileFromIndexedDB (app.js:966-980): the entry is deleted, or the
\* promise rejects (no store, or the request fails) and the entry stays.
DeleteOutcomes == IF db THEN BOOLEAN ELSE {FALSE}

deleteFileFromIndexedDB(store, fileIds, ok) ==
    IF ok THEN {b \in store : b.id \notin fileIds} ELSE store

\* deleteContents of deleteFolder (app.js:1743-1759) as a function of the
\* globals it reads and assigns: st is [folders, files, deleted, overflow],
\* deleted the ids passed to deleteFileFromIndexedDB, overflow the RangeError
\* of a recursion deeper than the folders can nest. The filter of a call runs
\* over the array that folders held when the call started, and its result is
\* assigned when it ends, over whatever the calls nested in it assigned.
RECURSIVE deleteContents(_, _, _), deleteSubfolders(_, _, _, _, _)
deleteContents(parentId, st, depth) ==
    IF depth = 0 THEN [st EXCEPT !.overflow = TRUE]
    ELSE LET array == st.folders
             after == deleteSubfolders(1, array, parentId, st, depth)
             filesToDelete == {after.files[i].id :
                                  i \in {j \in DOMAIN after.files :
                                            after.files[j].parentId = parentId}}
         IN IF after.overflow THEN after
            ELSE [folders |-> SelectSeq(array, LAMBDA f : f.parentId # parentId),
                  files |-> SelectSeq(after.files,
                                      LAMBDA f : f.parentId # parentId),
                  deleted |-> after.deleted \cup filesToDelete,
                  overflow |-> FALSE]

\* The callback of the filter (app.js:1745-1751) on array[i], array[i+1], ...
deleteSubfolders(i, array, parentId, st, depth) ==
    IF st.overflow \/ i > Len(array) THEN st
    ELSE deleteSubfolders(i + 1, array, parentId,
                          IF array[i].parentId = parentId
                          THEN deleteContents(array[i].id, st, depth - 1)
                          ELSE st,
                          depth)

\* deleteFolder with the test of the file filter inverted at the top level:
\* the files of the folder are the ones kept.
deleteFolder_invertedFilter(folderId, ok) ==
    /\ LET st == deleteContents(folderId,
                                [folders |-> folders, files |-> uploadedFiles,
                                 deleted |-> {}, overflow |-> FALSE],
                                Len(folders) + 1)
       IN /\ folders' = st.folders
          /\ uploadedFiles' = SelectSeq(uploadedFiles,
                                        LAMBDA f : f.parentId = folderId)
          /\ blobs' = deleteFileFromIndexedDB(blobs, st.deleted, ok)
          /\ saveFiles(uploadedFiles', folders')
          /\ fileEvent' = Event("deleteFolder",
                                (Len(folders) - Len(folders'))
                                + (Len(uploadedFiles) - Len(uploadedFiles')))
    /\ UNCHANGED <<currentFolder, db, batch, migrating, nextFileId, clock,
                   selectedFiles, sessVars, netVars, userVars>>

\* deleteFolder (app.js:1740-1764), the confirm dialog accepted. A RangeError
\* leaves the handler before saveFiles.
deleteFolder(folderId, ok) ==
    /\ LET st == deleteContents(folderId,
                                [folders |-> folders, files |-> uploadedFiles,
                                 deleted |-> {}, overflow |-> FALSE],
                                Len(folders) + 1)
       IN /\ folders' = st.folders
          /\ uploadedFiles' = st.files
          /\ blobs' = deleteFileFromIndexedDB(blobs, st.deleted, ok)
          /\ IF st.overflow
             THEN /\ UNCHANGED <<filesStored, foldersStored>>
                  /\ fileEvent' = Event("deleteFolderOverflow", 0)
             ELSE /\ saveFiles(uploadedFiles', folders')
                  /\ fileEvent' = Event("deleteFolder",
                                        (Len(folders) - Len(folders'))
                                        + (Len(uploadedFiles) - Len(uploadedFiles')))
    /\ UNCHANGED <<currentFolder, db, batch, migrating, nextFileId, clock,
                   selectedFiles, sessVars, netVars, userVars>>

\* folders.find(f => f.id === folderId) as an index: the first folder with
\* the id, 0 when there is none.
FindFolder(list, folderId) ==
    IF \E i \in DOMAIN list : list[i].id = folderId
    THEN CHOOSE i \in DOMAIN list :
             /\ list[i].id = folderId
             /\ \A j \in 1..(i - 1) : list[j].id # folderId
    ELSE 0

\* The ids of the rows renderFilesList shows (app.js:1159-1221): the folders
\* and the files of the current folder.
ShownFolders == ChildrenOf(currentFolder, folders)

ShownFiles == {uploadedFiles[i].id :
                  i \in {j \in DOMAIN uploadedFiles :
                            uploadedFiles[j].parentId = currentFolder}}

\* moveItem without the test that stops a folder being moved into itself.
moveItem_noSelfCheck(st, itemId, itemType, targetFolderId) ==
    IF itemType = "file"
    THEN LET i == FindFile(st.files, itemId)
         IN IF i # 0
            THEN [st EXCEPT !.files[i].parentId = targetFolderId,
                            !.moved = @ + 1]
            ELSE st
    ELSE LET i == FindFolder(st.folders, itemId)
         IN IF i # 0
            THEN [st EXCEPT !.folders[i].parentId = targetFolderId,
                            !.moved = @ + 1]
            ELSE st

\* moveItem (app.js:1854-1868) as a function of the lists: st is
\* [files, folders, moved], moved the number of calls that reached saveFiles.
moveItem(st, itemId, itemType, targetFolderId) ==
    IF itemType = "file"
    THEN LET i == FindFile(st.files, itemId)
         IN IF i # 0
            THEN [st EXCEPT !.files[i].parentId = targetFolderId,
                            !.moved = @ + 1]
            ELSE st
    ELSE LET i == FindFolder(st.folders, itemId)
         IN IF i # 0 /\ targetFolderId # itemId
            THEN [st EXCEPT !.folders[i].parentId = targetFolderId,
                            !.moved = @ + 1]
            ELSE st

\* handleDropOnManager (app.js:1829-1852): a row of the list is dropped on a
\* folder row of the list.
handleDropOnManager(itemId, itemType, targetFolderId) ==
    /\ LET st == moveItem([files |-> uploadedFiles, folders |-> folders,
                           moved |-> 0], itemId, itemType, targetFolderId)
       IN /\ uploadedFiles' = st.files
          /\ folders' = st.folders
          /\ IF st.moved > 0
             THEN /\ saveFiles(uploadedFiles', folders')
                  /\ fileEvent' = Event("moveItem", 1)
             ELSE /\ UNCHANGED <<filesStored, foldersStored>>
                  /\ fileEvent' = Event("moveRejected", 0)
    /\ UNCHANGED <<currentFolder, db, blobs, batch, migrating, nextFileId,
                   clock, selectedFiles, sessVars, netVars, userVars>>

\* toggleFileSelection (app.js:1789-1808): the checkbox of a row is clicked.
toggleFileSelection(itemId) ==
    /\ selectedFiles' = IF itemId \in selectedFiles
                        THEN selectedFiles \ {itemId}
                        ELSE selectedFiles \cup {itemId}
    /\ fileEvent' = Event("toggleFileSelection", 0)
    /\ UNCHANGED <<uploadedFiles, folders, currentFolder, filesStored,
                   foldersStored, db, blobs, batch, migrating, nextFileId,
                   clock, sessVars, netVars, userVars>>

\* The forEach of confirmMove (app.js:1897-1904) over the ids of items.
RECURSIVE moveEach(_, _, _)
moveEach(items, st, targetId) ==
    IF items = {} THEN st
    ELSE LET itemId == CHOOSE x \in items : TRUE
             next == IF FindFile(st.files, itemId) # 0
                     THEN moveItem(st, itemId, "file", targetId)
                     ELSE IF FindFolder(st.folders, itemId) # 0
                          THEN moveItem(st, itemId, "folder", targetId)
                          ELSE st
         IN moveEach(items \ {itemId}, next, targetId)

\* confirmMove without the clear of the selection (app.js:1906).
confirmMove_keepsSelection(targetId) ==
    /\ selectedFiles # {}
    /\ LET st == moveEach(selectedFiles,
                          [files |-> uploadedFiles, folders |-> folders,
                           moved |-> 0], targetId)
       IN /\ uploadedFiles' = st.files
          /\ folders' = st.folders
          /\ IF st.moved > 0 THEN saveFiles(uploadedFiles', folders')
             ELSE UNCHANGED <<filesStored, foldersStored>>
          /\ fileEvent' = Event("confirmMove", st.moved)
    /\ selectedFiles' = selectedFiles
    /\ UNCHANGED <<currentFolder, db, blobs, batch, migrating, nextFileId,
                   clock, sessVars, netVars, userVars>>

\* confirmMove (app.js:1888-1909) with a destination chosen in the dialog
\* that moveToSelected (app.js:1870-1886) opens for a selection that is not
\* empty: Home (null) or any folder of the list.
confirmMove(targetId) ==
    /\ selectedFiles # {}
    /\ LET st == moveEach(selectedFiles,
                          [files |-> uploadedFiles, folders |-> folders,
                           moved |-> 0], targetId)
       IN /\ uploadedFiles' = st.files
          /\ folders' = st.folders
          /\ IF st.moved > 0 THEN saveFiles(uploadedFiles', folders')
             ELSE UNCHANGED <<filesStored, foldersStored>>
          /\ fileEvent' = Event("confirmMove", st.moved)
    /\ selectedFiles' = {}
    /\ UNCHANGED <<currentFolder, db, blobs, batch, migrating, nextFileId,
                   clock, sessVars, netVars, userVars>>

\* deleteFile keeping the record when the store fails to delete the blob.
deleteFile_keepsOnFailure(fileId, ok) ==
    /\ uploadedFiles' = IF ok THEN SelectSeq(uploadedFiles, LAMBDA f : f.id # fileId)
                        ELSE uploadedFiles
    /\ blobs' = deleteFileFromIndexedDB(blobs, {fileId}, ok)
    /\ saveFiles(uploadedFiles', folders)
    /\ fileEvent' = Event("deleteFile", 0)
    /\ UNCHANGED <<folders, currentFolder, db, batch, migrating, nextFileId,
                   clock, selectedFiles, sessVars, netVars, userVars>>

\* deleteFile, bound to the Delete button of a file row (app.js:1214, 1663):
\* the record leaves the list, the store is asked to delete the blob
\* (app.js:966-980) and the metadata is persisted.
deleteFile(fileId, ok) ==
    /\ uploadedFiles' = SelectSeq(uploadedFiles, LAMBDA f : f.id # fileId)
    /\ blobs' = deleteFileFromIndexedDB(blobs, {fileId}, ok)
    /\ saveFiles(uploadedFiles', folders)
    /\ fileEvent' = Event("deleteFile", 0)
    /\ UNCHANGED <<folders, currentFolder, db, batch, migrating, nextFileId,
                   clock, selectedFiles, sessVars, netVars, userVars>>

\* The folders of the breadcrumb (app.js:1687-1695): the current folder and
\* the chain of its parents, n folders at most.
RECURSIVE BreadcrumbPath(_, _, _)
BreadcrumbPath(currentId, list, n) ==
    IF n = 0 \/ currentId = Root \/ ~(\E i \in DOMAIN list : list[i].id = currentId)
    THEN {}
    ELSE LET folder == list[CHOOSE i \in DOMAIN list : list[i].id = currentId]
         IN {currentId} \cup BreadcrumbPath(folder.parentId, list, n - 1)

\* The store of a server nobody has registered with: no key is set. The
\* prefix of a key (user:, user:email:, user:username:) is the field.
EmptyStore == [user |-> <<>>, email |-> <<>>, username |-> <<>>]

\* One user of the page, and a server at rest.
UsersAtRest ==
    /\ currentUser = 1
    /\ kv = EmptyStore
    /\ requests = {}

\* The variables of the File & Folder Manager on a device that never used it.
FilesAtRest ==
    /\ uploadedFiles = <<>>
    /\ folders = <<>>
    /\ currentFolder = Root
    /\ filesStored = Absent
    /\ foldersStored = Absent
    /\ db = TRUE
    /\ blobs = {}
    /\ batch = NoBatch
    /\ migrating = {}
    /\ nextFileId = 1
    /\ clock = 1
    /\ selectedFiles = {}
    /\ fileEvent = Event("loadFiles", 0)

----------------------------------------------------------------------------
\* The Session Manager's specification.

\* The page has just been loaded on a device whose cache is missing or
\* damaged, for an account with nothing stored: loadData's GET is in flight.
Init ==
    /\ sessions = <<>>
    /\ editingSessionId = NoId
    /\ cache \in {Absent, Garbage}
    /\ remote = [sessions |-> <<>>, totalHours |-> 0]
    /\ pushes = {}
    /\ load = [st |-> "sent", sessions |-> <<>>, pending |-> {}]
    /\ nextId = 1
    /\ lastEvent = "init"
    /\ uncaught = FALSE
    /\ downloads = {}
    /\ netArgs = <<>>
    /\ netResult = <<>>
    /\ FilesAtRest
    /\ UsersAtRest

Next ==
    \/ \E f \in AddForms :
           saveSession(f[1], f[2], f[3], f[4]) /\ UnderCap(MaxInflight)
    \/ \E id \in Ids(sessions) : openEditModal(id)
    \/ closeEditModal
    \/ \E f \in EditForms :
           updateSession(f[1], f[2], f[3], f[4]) /\ UnderCap(MaxInflight)
    \/ deleteCurrentSession /\ UnderCap(MaxInflight)
    \/ \E file \in ImportFiles \cup downloads :
           importJSON(file) /\ UnderCap(MaxInflight)
    \/ exportJSON
    \/ clearAllData
    \/ \E b \in pushes : ServerPost(b)
    \/ \E b \in pushes, status \in Failures : saveDataFailed(b, status)
    \/ ServerGet
    \/ loadDataOk
    \/ \E status \in Failures : loadDataFallback(status)
    \/ Reload

Spec == Init /\ [][Next]_vars

----------------------------------------------------------------------------
\* calculateNetMinutes on its own.

NetTimes == {<<0, 0>>, <<8, 0>>, <<8, 30>>, <<9, 0>>, <<17, 0>>, <<23, 59>>}

NetBreaks == {0, 30, 60, 600}

NetInit ==
    /\ sessions = <<>>
    /\ editingSessionId = NoId
    /\ cache = Absent
    /\ remote = [sessions |-> <<>>, totalHours |-> 0]
    /\ pushes = {}
    /\ load = Idle
    /\ nextId = 1
    /\ lastEvent = "init"
    /\ uncaught = FALSE
    /\ downloads = {}
    /\ netArgs \in NetTimes \X NetTimes \X NetBreaks
    /\ netResult = <<>>
    /\ FilesAtRest
    /\ UsersAtRest

NetCall ==
    /\ netResult = <<>>
    /\ netResult' = <<calculateNetMinutes(netArgs[1], netArgs[2], netArgs[3])>>
    /\ UNCHANGED <<netArgs, sessVars, fileVars, userVars>>

NetNext == NetCall

NetSpec == NetInit /\ [][NetNext]_vars

----------------------------------------------------------------------------
\* The File & Folder Manager's specification.

\* The variables of the Session Manager for an account with nothing stored.
SessionsAtRest ==
    /\ sessions = <<>>
    /\ editingSessionId = NoId
    /\ cache = Absent
    /\ remote = [sessions |-> <<>>, totalHours |-> 0]
    /\ pushes = {}
    /\ load = Idle
    /\ nextId = 1
    /\ lastEvent = "init"
    /\ uncaught = FALSE
    /\ downloads = {}

\* What the device holds when the page is loaded: nothing; a record written
\* by the version that kept the payload inline; that record and a file stored
\* by an earlier upload, with its blob; a folder and a value of the files key
\* that JSON.parse rejects; the legacy record and a value of the folders key
\* that JSON.parse rejects.
Devices ==
    { [files |-> Absent, folders |-> Absent, blobs |-> {}],
      [files |-> JSONstringify(<<LegacyFile>>), folders |-> Absent, blobs |-> {}],
      [files |-> JSONstringify(<<LegacyFile, StoredFile>>), folders |-> Absent,
       blobs |-> {[id |-> StoredFile.id, data |-> SmallFile.bytes]}],
      [files |-> Garbage, folders |-> JSONstringify(<<StoredFolder>>),
       blobs |-> {}],
      [files |-> JSONstringify(<<LegacyFile>>), folders |-> Garbage,
       blobs |-> {}] }

\* The page has just been loaded (app.js:99-114): initIndexedDB opened the
\* store or failed, loadFiles read the lists.
FileInit ==
    /\ SessionsAtRest
    /\ UsersAtRest
    /\ netArgs = <<>>
    /\ netResult = <<>>
    /\ \E d \in Devices : /\ filesStored = d.files
                          /\ foldersStored = d.folders
                          /\ blobs = d.blobs
    /\ uploadedFiles = Loaded(filesStored)
    /\ folders = Loaded(foldersStored)
    /\ currentFolder = Root
    /\ db \in BOOLEAN
    /\ batch = NoBatch
    /\ migrating = {}
    /\ nextFileId = 2
    /\ clock = 1
    /\ selectedFiles = {}
    /\ fileEvent = Event("loadFiles", 0)

\* The ids a row or a context menu rendered earlier can still carry
\* (app.js:1212, 1657): those of the files of Devices that the list has no
\* record of.
StaleRows == {LegacyFile.id, StoredFile.id} \ FileIds(uploadedFiles)

\* The handlers of the file list while no upload is in progress.
FileNext ==
    \/ \E fileId \in ShownFiles \cup StaleRows : previewFile(fileId)
    \/ \E m \in migrating : migrationStored(m)
    \/ \E m \in migrating : migrationFailed(m)
    \/ \E rawName \in FolderNames, now \in {clock, clock + 1} :
           now <= MaxClock /\ createFolder(rawName, now)
    \/ \E folderId \in {Root} \cup ShownFolders
                        \cup BreadcrumbPath(currentFolder, folders, Len(folders)) :
           navigateToFolder(folderId)
    \/ \E folderId \in ShownFolders, ok \in DeleteOutcomes :
           deleteFolder(folderId, ok)
    \/ \E fileId \in ShownFiles, ok \in DeleteOutcomes : deleteFile(fileId, ok)
    \/ \E itemId \in ShownFiles, targetFolderId \in ShownFolders :
           handleDropOnManager(itemId, "file", targetFolderId)
    \/ \E itemId \in ShownFolders, targetFolderId \in ShownFolders :
           handleDropOnManager(itemId, "folder", targetFolderId)
    \/ \E itemId \in ShownFiles \cup ShownFolders : toggleFileSelection(itemId)
    \/ \E targetId \in {Root} \cup FolderIds(folders) : confirmMove(targetId)
    \/ FileReload

FileSpec == FileInit /\ [][FileNext]_vars

\* The store answers every put: the request of a pending migration gets its
\* onsuccess or its onerror (app.js:904-916).
PutSettles == \E m \in migrating : migrationStored(m) \/ migrationFailed(m)

FairFileSpec == FileInit /\ [][FileNext]_vars /\ WF_vars(PutSettles)

----------------------------------------------------------------------------
\* Uploads.

\* The page has just been loaded on a device that never held a file.
UploadInit ==
    /\ SessionsAtRest
    /\ UsersAtRest
    /\ netArgs = <<>>
    /\ netResult = <<>>
    /\ filesStored = Absent
    /\ foldersStored = Absent
    /\ uploadedFiles = Loaded(filesStored)
    /\ folders = Loaded(foldersStored)
    /\ currentFolder = Root
    /\ db \in BOOLEAN
    /\ blobs = {}
    /\ batch = NoBatch
    /\ migrating = {}
    /\ nextFileId = 1
    /\ clock = 1
    /\ selectedFiles = {}
    /\ fileEvent = Event("loadFiles", 0)

\* The handlers of an upload and those that can run while it is in progress.
UploadNext ==
    \/ \E files \in DroppedFiles : handleFiles(files)
    \/ \E i \in batch.reading : readerOnload(i)
    \/ \E i \in batch.reading : readerOnerror(i)
    \/ \E w \in batch.writing : uploadStored(w)
    \/ \E w \in batch.writing : uploadFailed(w)
    \/ \E fileId \in ShownFiles : previewFile(fileId)
    \/ \E rawName \in FolderNames, now \in {clock, clock + 1} :
           now <= MaxClock /\ createFolder(rawName, now)
    \/ \E folderId \in {Root} \cup ShownFolders
                        \cup BreadcrumbPath(currentFolder, folders, Len(folders)) :
           navigateToFolder(folderId)
    \/ \E folderId \in ShownFolders, ok \in DeleteOutcomes :
           deleteFolder(folderId, ok)
    \/ \E fileId \in ShownFiles, ok \in DeleteOutcomes : deleteFile(fileId, ok)
    \/ FileReload

UploadSpec == UploadInit /\ [][UploadNext]_vars

----------------------------------------------------------------------------
\* Requests that overlap.

\* The Session Manager with the remote store reachable: the page is loaded,
\* loadData has been answered for an account with nothing stored, every POST
\* reaches the server, and a handler can start a request while another one
\* is in flight (saveData is never awaited: app.js:484, 533, 547).
PushInit ==
    /\ SessionsAtRest
    /\ UsersAtRest
    /\ netArgs = <<>>
    /\ netResult = <<>>
    /\ FilesAtRest

PushNext ==
    \/ \E f \in AddForms :
           saveSession(f[1], f[2], f[3], f[4]) /\ UnderCap(MaxOverlap)
    \/ \E id \in Ids(sessions) : openEditModal(id)
    \/ closeEditModal
    \/ \E f \in EditForms :
           updateSession(f[1], f[2], f[3], f[4]) /\ UnderCap(MaxOverlap)
    \/ deleteCurrentSession /\ UnderCap(MaxOverlap)
    \/ \E file \in ImportFiles : importJSON(file) /\ UnderCap(MaxOverlap)
    \/ \E b \in pushes : ServerPost(b)

PushSpec == PushInit /\ [][PushNext]_vars

----------------------------------------------------------------------------
\* Claims about the Session Manager.

\* The cache holds the in-memory list (a missing key stands for no sessions).
CacheInSync ==
    \/ cache = JSONstringify(sessions)
    \/ cache = Absent /\ sessions = <<>>

SessionOpEvents ==
    {"added", "addRejected", "updated", "updateRejected", "deleted",
     "imported", "importRejected"}

\* C1: addSession, updateSession (accepted or rejected), deleteSession and
\* import each leave the cached list equal to the in-memory list: started
\* with the two equal, the handler ends with the two equal.
C1_CacheNeverBehind ==
    [][(lastEvent' \in SessionOpEvents /\ CacheInSync) => CacheInSync']_vars

\* C2: a session that was only on the device when the page was reloaded
\* (its POST had failed) is not discarded by the load that then succeeds: it
\* is still in memory, or on the remote store, or in a request on its way
\* there. A session discarded from all three can never reach the remote store.
C2_OfflineSaveSurvivesReload ==
    [][lastEvent' = "loadedRemote" =>
          \A id \in load.pending \cap CacheIds(cache) :
              id \in Ids(sessions') \cup Ids(remote'.sessions)
                     \cup PushIds(pushes')]_vars

\* C3: when loadData gets an ok response, the in-memory list becomes the list
\* of the response and the cache is set to that same list.
C3_LoadSuccessReplacesAndMirrors ==
    [][lastEvent' = "loadedRemote" =>
          /\ load.st = "ok"
          /\ sessions' = load.sessions
          /\ cache' = JSONstringify(load.sessions)]_vars

C3_Witness ==
    /\ lastEvent = "loadedRemote"
    /\ sessions # <<>>
    /\ cache = JSONstringify(sessions)

\* C4: when the remote fetch of loadData fails, the in-memory list becomes
\* the cached list if the cache holds one and is empty if the cache is missing
\* or unparsable; the cache is left alone and no exception escapes.
C4_LoadFailureFallsBackToCache ==
    [][lastEvent' = "loadedFallback" =>
          /\ cache.kind = "json" => sessions' = cache.val
          /\ cache.kind # "json" => sessions' = <<>>
          /\ cache' = cache
          /\ ~uncaught']_vars

C4_Witness ==
    /\ lastEvent = "loadedFallback"
    /\ cache.kind = "json"
    /\ sessions = cache.val
    /\ sessions # <<>>
    /\ remote.sessions # sessions

\* C5: every POST that saveData sends carries the in-memory list, and the
\* cache already holds that list when it leaves; when the POST fails, the
\* cache and the in-memory list stay as they are and no exception escapes.
C5_SaveIsLocalFirst ==
    [][/\ \A b \in pushes' \ pushes :
              /\ b.sessions = sessions'
              /\ cache' = JSONstringify(sessions')
       /\ lastEvent' = "pushFailed" =>
              /\ cache' = cache
              /\ sessions' = sessions
              /\ ~uncaught']_vars

C5_Witness ==
    /\ lastEvent = "pushFailed"
    /\ sessions # <<>>
    /\ cache = JSONstringify(sessions)
    /\ remote.sessions # sessions

\* C6: an updateSession rejected for net minutes <= 0 leaves the in-memory
\* session list, every field of the edited session included, as it was.
C6_RejectedUpdateMutatesNothing ==
    [][lastEvent' = "updateRejected" => sessions' = sessions]_vars

\* The add form is one saveSession rejects.
Invalid(f) ==
    \/ f[1] = ""
    \/ f[2] = <<>>
    \/ f[3] = <<>>
    \/ calculateNetMinutes(f[2], f[3], parseIntOr0(f[4])) <= 0

\* C7: saveSession with a required field missing or net minutes <= 0 adds
\* nothing, leaves the list alone and starts no save; with valid fields it
\* appends exactly one session, whose netMinutes is calculateNetMinutes of the
\* form's start, end and break, and saves (cache written, POST sent).
C7_AddSessionValidates ==
    [][\A f \in AddForms :
          saveSession(f[1], f[2], f[3], f[4]) =>
              IF Invalid(f)
              THEN /\ sessions' = sessions
                   /\ cache' = cache
                   /\ pushes' = pushes
              ELSE /\ Len(sessions') = Len(sessions) + 1
                   /\ SubSeq(sessions', 1, Len(sessions)) = sessions
                   /\ sessions'[Len(sessions')].netMinutes =
                          calculateNetMinutes(f[2], f[3], parseIntOr0(f[4]))
                   /\ sessions'[Len(sessions')].netMinutes > 0
                   /\ cache' = JSONstringify(sessions')
                   /\ PostBody(sessions') \in pushes']_vars

C7_Witness ==
    /\ lastEvent = "added"
    /\ Len(sessions) >= 1
    /\ sessions[Len(sessions)].netMinutes = 480
    /\ cache = JSONstringify(sessions)
    /\ PostBody(sessions) \in pushes

\* The minutes from midnight of a time of day.
MinutesOfDay(t) == 60 * t[1] + t[2]

\* C8: calculateNetMinutes(start, end, break) is max(0, (end - start) - break)
\* when end is later than start, and 0 when it is not, whatever the break.
C8_NetMinutes ==
    netResult # <<>> =>
        LET start == MinutesOfDay(netArgs[1])
            end == MinutesOfDay(netArgs[2])
            break == netArgs[3]
        IN IF end > start
           THEN /\ netResult[1] >= 0
                /\ netResult[1] >= (end - start) - break
                /\ netResult[1] \in {0, (end - start) - break}
           ELSE netResult[1] = 0

C8_Witness ==
    /\ netResult = <<0>>
    /\ netArgs = <<<<8, 30>>, <<9, 0>>, 600>>

\* The add form of Scenario A was submitted and accepted, and the session it
\* stored has netMinutes n.
ScenarioAStores(n) ==
    saveSession(ScenarioDate, <<8, 30>>, <<17, 0>>, <<30>>) =>
        /\ Len(sessions') = Len(sessions) + 1
        /\ sessions'[Len(sessions')].date = ScenarioDate
        /\ sessions'[Len(sessions')].startTime = <<8, 30>>
        /\ sessions'[Len(sessions')].endTime = <<17, 0>>
        /\ sessions'[Len(sessions')].breakMinutes = 30
        /\ sessions'[Len(sessions')].netMinutes = n

\* C9 as stated: the add form of Scenario A (2024-03-01, 08:30 to 17:00,
\* break 30) stores a session with netMinutes 450.
C9_ScenarioA_450 == [][ScenarioAStores(450)]_vars

\* C9 amended: the add form of Scenario A (2024-03-01, 08:30 to 17:00,
\* break 30) stores a session with netMinutes 480 (510 minutes less 30).
C9_ScenarioA_480 == [][ScenarioAStores(480)]_vars

C9_Witness ==
    /\ lastEvent = "added"
    /\ \E i \in 1..Len(sessions) :
           /\ sessions[i].date = ScenarioDate
           /\ sessions[i].startTime = <<8, 30>>
           /\ sessions[i].endTime = <<17, 0>>
           /\ sessions[i].breakMinutes = 30
           /\ sessions[i].netMinutes = 480

----------------------------------------------------------------------------
\* Claims about the File & Folder Manager.

\* C10: every record of the file list has content that can be retrieved: an
\* entry of the blob store under its id, or inline data carried by the record.
C10_NoOrphanedMetadata ==
    \A i \in DOMAIN uploadedFiles :
        HasBlob(blobs, uploadedFiles[i].id) \/ HasLegacyData(uploadedFiles[i])

\* The ids of folderId and of the folders below it.
Subtree(folderId) == Visited({folderId}, folders, Len(folders))

\* C11: deleteFolder(F) removes F itself, every folder below F and every file
\* in F or below it from the in-memory lists.
C11_DeleteFolderRemovesSubtree ==
    [][\A folderId \in FolderIds(folders), ok \in BOOLEAN :
          deleteFolder(folderId, ok) =>
              /\ \A i \in DOMAIN folders' :
                     folders'[i].id \notin Subtree(folderId)
              /\ \A i \in DOMAIN uploadedFiles' :
                     uploadedFiles'[i].parentId \notin Subtree(folderId)]_vars

\* The folders of list that are not F or below it, and the files that are not
\* in F or below it.
FoldersOutside(list, folderId) ==
    SelectSeq(list, LAMBDA f : f.id \notin Subtree(folderId)
                               /\ f.parentId \notin Subtree(folderId))

FilesOutside(list, folderId) ==
    SelectSeq(list, LAMBDA f : f.parentId \notin Subtree(folderId))

\* C12: deleteFolder(F) leaves the folders and files outside the subtree of F
\* as they were: the same records, each with the same parentId.
C12_DeleteFolderFrame ==
    [][\A folderId \in FolderIds(folders), ok \in BOOLEAN :
          deleteFolder(folderId, ok) =>
              /\ FoldersOutside(folders', folderId)
                     = FoldersOutside(folders, folderId)
              /\ FilesOutside(uploadedFiles', folderId)
                     = FilesOutside(uploadedFiles, folderId)]_vars

C12_Witness ==
    /\ fileEvent.op = "deleteFolder"
    /\ fileEvent.n > 0
    /\ \E i \in DOMAIN uploadedFiles : uploadedFiles[i].parentId = Root
    /\ \E i \in DOMAIN folders : folders[i].parentId = Root

\* Following parentId from folderId reaches null, or an id no folder has,
\* within n steps.
RECURSIVE ReachesRoot(_, _, _)
ReachesRoot(folderId, list, n) ==
    IF folderId = Root \/ FindFolder(list, folderId) = 0 THEN TRUE
    ELSE IF n = 0 THEN FALSE
    ELSE ReachesRoot(list[FindFolder(list, folderId)].parentId, list, n - 1)

\* C13: the folders form a tree: following parentId from any folder ends
\* after finitely many steps (there is no cycle).
C13_FoldersFormTree ==
    \A i \in DOMAIN folders : ReachesRoot(folders[i].id, folders, Len(folders))

\* C14: moveItem of a folder onto itself, by a drop or from the move dialog,
\* is rejected: the lists and the persisted metadata stay as they are.
C14_SelfMoveRejected ==
    [][/\ \A folderId \in FolderIds(folders) :
              handleDropOnManager(folderId, "folder", folderId) =>
                  /\ folders' = folders
                  /\ uploadedFiles' = uploadedFiles
                  /\ filesStored' = filesStored
                  /\ foldersStored' = foldersStored
       /\ \A folderId \in FolderIds(folders) :
              (selectedFiles = {folderId} /\ confirmMove(folderId)) =>
                  /\ folders' = folders
                  /\ uploadedFiles' = uploadedFiles
                  /\ filesStored' = filesStored
                  /\ foldersStored' = foldersStored]_vars

C14_Witness ==
    /\ fileEvent.op = "moveRejected"
    /\ folders # <<>>
    /\ foldersStored = JSONstringify(folders)

----------------------------------------------------------------------------
\* Claims about uploads.

\* The events of the handlers of an upload.
UploadFailures == {"readFailed", "uploadFailed", "storeUnavailable"}

UploadEvents == UploadFailures \cup {"handleFiles", "readerOnload",
                                     "uploadStored", "uploadReported"}

\* C15: a record joins the file list only with the blob of its id in the
\* store; a file skipped for its size, or whose read or blob write fails,
\* adds no record.
C15_MetadataAfterBlob ==
    [][/\ \A i \in DOMAIN uploadedFiles' :
              uploadedFiles'[i].id \notin FileIds(uploadedFiles) =>
                  HasBlob(blobs', uploadedFiles'[i].id)
       /\ fileEvent'.op \in UploadFailures \cup {"handleFiles", "readerOnload"} =>
              uploadedFiles' = uploadedFiles]_vars

C15_Witness ==
    /\ fileEvent = Event("uploadReported", 1)
    /\ nextFileId = 3
    /\ Len(uploadedFiles) = 1
    /\ HasBlob(blobs, uploadedFiles[1].id)
    /\ Cardinality(blobs) = 1

\* The number of files of the batch stored once the step is taken.
SuccessCount == batch.success
                + (IF fileEvent'.op \in {"uploadStored", "uploadReported"}
                   THEN 1 ELSE 0)

\* The step settles the last file of the batch.
BatchSettles ==
    /\ fileEvent'.op \in UploadEvents
    /\ batch # NoBatch
    /\ batch' = NoBatch

\* C16: the handlers of an upload persist the metadata when the last file of
\* the batch settles and not before, and the count of files stored is
\* reported then, whichever file settles last.
C16_BatchPersistsOnceAndReports ==
    [][/\ (BatchSettles /\ SuccessCount > 0) =>
              /\ filesStored' = JSONstringify(
                     [i \in DOMAIN uploadedFiles' |-> Metadata(uploadedFiles'[i])])
              /\ fileEvent' = Event("uploadReported", SuccessCount)
       /\ (fileEvent'.op \in UploadEvents /\ ~BatchSettles) =>
              /\ filesStored' = filesStored
              /\ foldersStored' = foldersStored]_vars

\* C17: handleFiles skips the files over 200 MiB, reporting each, and starts
\* reading every other file, one of exactly 200 MiB included; a file over the
\* limit never gets a record or a blob; a file that fails leaves the other
\* files of the batch on their way.
C17_SizeLimitPerFile ==
    [][/\ \A files \in DroppedFiles :
              handleFiles(files) =>
                  LET accepted == {i \in DOMAIN files :
                                      files[i].size <= 209715200}
                  IN /\ fileEvent'.n = Len(files) - Cardinality(accepted)
                     /\ accepted # {} => batch'.reading = accepted
                     /\ uploadedFiles' = uploadedFiles
                     /\ blobs' = blobs
       /\ \A i \in DOMAIN uploadedFiles' :
              uploadedFiles'[i].name # LargeFile.name
       /\ \A b \in blobs' : b.data # LargeFile.bytes
       /\ (fileEvent'.op \in UploadFailures /\ fileEvent' # fileEvent) =>
              Cardinality(batch.reading \cup {w.i : w \in batch.writing})
                  = 1 + Cardinality(batch'.reading \cup {w.i : w \in batch'.writing})
      ]_vars

C17_Witness ==
    \E i \in DOMAIN uploadedFiles :
        /\ uploadedFiles[i].name = LimitFile.name
        /\ [id |-> uploadedFiles[i].id, data |-> LimitFile.bytes] \in blobs

\* The bytes of the dropped file of a name.
BytesOf(name) ==
    (CHOOSE f \in {SmallFile, LimitFile, LargeFile} : f.name = name).bytes

\* C18: while the store is open, previewFile of a record of the list gets
\* the bytes that were uploaded under its id.
C18_UploadRetrieveRoundTrip ==
    \A i \in DOMAIN uploadedFiles :
        db => PreviewBlob(uploadedFiles[i], blobs, db)
                  = <<BytesOf(uploadedFiles[i].name)>>

C18_Witness ==
    /\ fileEvent.op = "previewShown"
    /\ Len(uploadedFiles) = 2
    /\ uploadedFiles[1].name # uploadedFiles[2].name
    /\ \A i \in DOMAIN uploadedFiles :
           PreviewBlob(uploadedFiles[i], blobs, db)
               = <<BytesOf(uploadedFiles[i].name)>>

----------------------------------------------------------------------------
\* Claims about deleting and migrating files.

\* What previewFile of an id shows (app.js:1264-1270, 1313-1316): 'File not
\* found' when the list has no record of the id, the data-missing alert when
\* no blob could be got, the preview otherwise.
RetrieveOutcome(files, store, dbOpen, fileId) ==
    IF FindFile(files, fileId) = 0 THEN "notFound"
    ELSE IF PreviewBlob(files[FindFile(files, fileId)], store, dbOpen) = <<>>
         THEN "dataMissing"
         ELSE "previewShown"

\* C19: deleteFile takes the record out of the list and out of the persisted
\* metadata whether or not the store deletes the blob, the blob is gone when
\* the store succeeds, no error escapes, and previewFile of the id then shows
\* 'not found' or 'data missing'.
C19_DeleteFileRemovesMetadata ==
    [][\A fileId \in FileIds(uploadedFiles), ok \in BOOLEAN :
           deleteFile(fileId, ok) =>
               /\ fileId \notin FileIds(uploadedFiles')
               /\ filesStored' = JSONstringify(
                      [i \in DOMAIN uploadedFiles' |-> Metadata(uploadedFiles'[i])])
               /\ fileId \notin FileIds(Loaded(filesStored'))
               /\ ok => ~HasBlob(blobs', fileId)
               /\ uncaught' = uncaught
               /\ RetrieveOutcome(uploadedFiles', blobs', db', fileId)
                      \in {"notFound", "dataMissing"}]_vars

C19_Witness ==
    /\ fileEvent.op = "deleteFile"
    /\ \E b \in blobs : b.id \notin FileIds(uploadedFiles)
    /\ filesStored = JSONstringify(
           [i \in DOMAIN uploadedFiles |-> Metadata(uploadedFiles[i])])

\* previewFile has started the migration of the record of an id.
MigrationPending(fileId) == \E m \in migrating : m.id = fileId

\* The record of an id is migrated: the store holds the decoded content under
\* the id, neither the record nor its persisted copy carries data, and
\* previewFile gets the decoded content.
Migrated(fileId, content) ==
    /\ [id |-> fileId, data |-> content] \in blobs
    /\ FindFile(uploadedFiles, fileId) # 0
    /\ ~HasLegacyData(uploadedFiles[FindFile(uploadedFiles, fileId)])
    /\ FindFile(Loaded(filesStored), fileId) # 0
    /\ ~HasLegacyData(Loaded(filesStored)[FindFile(Loaded(filesStored), fileId)])
    /\ PreviewBlob(uploadedFiles[FindFile(uploadedFiles, fileId)], blobs, db)
           = <<content>>

\* C20: once previewFile has shown a legacy record with the store open, the
\* record gets migrated, unless the put fails, the page is loaded again or
\* the record is deleted first.
C20_LegacyEventuallyMigrated ==
    MigrationPending(LegacyFile.id)
        ~> \/ Migrated(LegacyFile.id, base64toBlob(LegacyFile.data))
           \/ fileEvent.op \in {"migrationFailed", "loadFiles"}
           \/ FindFile(uploadedFiles, LegacyFile.id) = 0

C20_Witness ==
    /\ fileEvent.op = "migrated"
    /\ Migrated(LegacyFile.id, base64toBlob(LegacyFile.data))

\* The records of a list that carry inline data and whose id has a record
\* without inline data in the list after it.
Stripped(before, after) ==
    {before[i] : i \in {j \in DOMAIN before :
                           /\ HasLegacyData(before[j])
                           /\ \E k \in DOMAIN after :
                                  /\ after[k].id = before[j].id
                                  /\ ~HasLegacyData(after[k])}}

\* C21: a migration that fails changes neither the list nor its persisted
\* copy, previewFile of a legacy record shows the decoded inline data whether
\* or not the migration can start, and a record, in the list or in its
\* persisted copy, loses its inline data only in a step after which the
\* store holds the decoded data under its id.
C21_InlineDataKeptUntilBlobStored ==
    [][/\ \A m \in migrating :
              migrationFailed(m) =>
                  /\ uploadedFiles' = uploadedFiles
                  /\ filesStored' = filesStored
       /\ \A fileId \in FileIds(uploadedFiles) :
              LET file == uploadedFiles[FindFile(uploadedFiles, fileId)]
              IN (previewFile(fileId) /\ HasLegacyData(file)
                      /\ file.name[2] \in PreviewExts) =>
                     /\ fileEvent'.op = "previewShown"
                     /\ PreviewBlob(file, blobs', db') = <<base64toBlob(file.data)>>
                     /\ uploadedFiles' = uploadedFiles
       /\ \A f \in Stripped(uploadedFiles, uploadedFiles')
                       \cup Stripped(Loaded(filesStored), Loaded(filesStored')) :
              [id |-> f.id, data |-> base64toBlob(f.data)] \in blobs'
      ]_vars

\* C22: previewFile shows the decoded inline data of a record that carries
\* it, otherwise the entry of the store under the id; a record with neither
\* gets the data-missing alert, an id without a record the not-found alert.
C22_RetrieveOrderAndOutcomes ==
    [][\A fileId \in FileIds(uploadedFiles) \cup StaleRows :
           previewFile(fileId) =>
               LET i == FindFile(uploadedFiles, fileId)
               IN IF i = 0 THEN fileEvent'.op = "notFound"
                  ELSE IF HasLegacyData(uploadedFiles[i])
                  THEN /\ fileEvent'.op = "previewShown"
                       /\ PreviewBlob(uploadedFiles[i], blobs, db)
                              = <<base64toBlob(uploadedFiles[i].data)>>
                  ELSE IF db /\ HasBlob(blobs, fileId)
                  THEN /\ fileEvent'.op = "previewShown"
                       /\ [id |-> fileId,
                           data |-> PreviewBlob(uploadedFiles[i], blobs, db)[1]]
                              \in blobs
                  ELSE fileEvent'.op = "dataMissing"]_vars

C22_Witness ==
    /\ fileEvent.op = "dataMissing"
    /\ db
    /\ \E i \in DOMAIN uploadedFiles :
           /\ uploadedFiles[i].parentId = currentFolder
           /\ ~HasLegacyData(uploadedFiles[i])
           /\ ~HasBlob(blobs, uploadedFiles[i].id)
    /\ StaleRows # {}

\* C23: without a store, the upload of a file and previewFile of a record
\* without inline data both report that the store is unavailable, and leave
\* the list as it is.
C23_StoreUnavailableReported ==
    [][/\ \A i \in batch.reading :
              (readerOnload(i) /\ ~db) =>
                  /\ fileEvent'.op = "storeUnavailable"
                  /\ uploadedFiles' = uploadedFiles
       /\ \A fileId \in FileIds(uploadedFiles) :
              (/\ previewFile(fileId)
               /\ ~db
               /\ ~HasLegacyData(uploadedFiles[FindFile(uploadedFiles, fileId)])) =>
                  /\ fileEvent'.op = "storeUnavailable"
                  /\ uploadedFiles' = uploadedFiles]_vars

----------------------------------------------------------------------------
\* Claims about the remote store's answers and about import and export.

\* C24: a 401 or a 403 answer to the GET of loadData or to the POST of
\* saveData is handled as an authentication failure, not as the other
\* failures are.
C24_AuthFailureDistinct ==
    [][\A status \in AuthFailures :
           /\ loadDataFallback(status) => lastEvent' = "authFailed"
           /\ \A b \in pushes :
                  saveDataFailed(b, status) => lastEvent' = "authFailed"]_vars

\* C25: exportJSON makes the browser save a snapshot of the session list, and
\* importJSON of a saved snapshot makes the list the one of the snapshot.
C25_ExportImportRoundTrip ==
    [][/\ exportJSON =>
              [shape |-> "object", list |-> sessions] \in downloads'
       /\ \A file \in downloads : importJSON(file) => sessions' = file.list]_vars

\* C26: importJSON of an object with a sessions array or of a bare array
\* makes the list the one of the file and calls saveData; of anything else it
\* leaves the list, the cache, the remote store and the requests as they are.
C26_ImportShapes ==
    [][\A file \in ImportFiles :
           importJSON(file) =>
               IF file.shape \in {"object", "array"}
               THEN /\ sessions' = file.list
                    /\ cache' = JSONstringify(file.list)
                    /\ PostBody(file.list) \in pushes'
               ELSE /\ sessions' = sessions
                    /\ cache' = cache
                    /\ remote' = remote
                    /\ pushes' = pushes]_vars

C26_Witness ==
    /\ lastEvent = "imported"
    /\ sessions = <<ExportedSession>>
    /\ cache = JSONstringify(sessions)
    /\ PostBody(sessions) \in pushes
    /\ nextId > 1

----------------------------------------------------------------------------
\* Claims about the selection, folder ids and loadFiles.

\* After a step, the files with an id of ids, and the folders that find
\* returns for an id of ids, have targetId as their parentId.
MovedTo(ids, targetId) ==
    /\ \A i \in DOMAIN uploadedFiles' :
           uploadedFiles'[i].id \in ids => uploadedFiles'[i].parentId = targetId
    /\ \A i \in DOMAIN folders' :
           (folders'[i].id \in ids /\ FindFolder(folders', folders'[i].id) = i)
               => folders'[i].parentId = targetId

\* C27 as stated: confirmMove gives every selected file and folder the
\* destination as its parentId and empties the selection.
C27_MoveSelectedMovesAll ==
    [][\A targetId \in {Root} \cup FolderIds(folders) :
           confirmMove(targetId) =>
               /\ MovedTo(selectedFiles, targetId)
               /\ selectedFiles' = {}]_vars

\* C27: confirmMove gives every selected file and folder other than the
\* destination itself the destination as its parentId, leaves a selected
\* destination where it is, and empties the selection.
C27_MoveSelectedMovesAllButTarget ==
    [][\A targetId \in {Root} \cup FolderIds(folders) :
           confirmMove(targetId) =>
               /\ MovedTo(selectedFiles \ {targetId}, targetId)
               /\ \A i \in DOMAIN folders :
                      folders[i].id = targetId => folders'[i] = folders[i]
               /\ selectedFiles' = {}]_vars

C27_Witness ==
    /\ fileEvent = Event("confirmMove", 2)
    /\ selectedFiles = {}
    /\ \E i \in DOMAIN uploadedFiles, j \in DOMAIN folders :
           /\ uploadedFiles[i].parentId # Root
           /\ folders[j].parentId = uploadedFiles[i].parentId

\* C28: every id of the selection is the id of a file or of a folder of the
\* current folder.
C28_SelectionInCurrentFolder ==
    \A itemId \in selectedFiles :
        \/ \E i \in DOMAIN uploadedFiles :
               /\ uploadedFiles[i].id = itemId
               /\ uploadedFiles[i].parentId = currentFolder
        \/ \E i \in DOMAIN folders :
               /\ folders[i].id = itemId
               /\ folders[i].parentId = currentFolder

\* C29: the folders of the list have ids that differ from one another.
C29_FolderIdsUnique ==
    \A i, j \in DOMAIN folders : i # j => folders[i].id # folders[j].id

\* What loadFiles leaves in a list for the value of its key: nothing for a
\* missing key or a value that does not parse, the parsed value otherwise.
ListFor(stored) == IF stored.kind = "json" THEN stored.val ELSE <<>>

\* C30: once loadFiles has run, each list is the one its own key holds, empty
\* when its own key does not parse whatever the other key holds, and the
\* current folder is the root.
C30_LoadResetsOnlyFailedList ==
    fileEvent.op = "loadFiles" =>
        /\ uploadedFiles = ListFor(filesStored)
        /\ folders = ListFor(foldersStored)
        /\ currentFolder = Root

C30_Witness ==
    /\ fileEvent.op = "loadFiles"
    /\ filesStored = Garbage
    /\ uploadedFiles = <<>>
    /\ folders = <<StoredFolder>>

----------------------------------------------------------------------------
\* Claims about requests in flight, the remote record and the data wipe.

\* C33: when loadData resumes, with the response or in its catch block, the
\* sessions added while its request was in flight are still in the list and
\* in the cache.
C33_LoadKeepsAddedSessions ==
    [][(loadDataOk \/ \E status \in Failures : loadDataFallback(status)) =>
           \A id \in Ids(sessions) :
               /\ id \in Ids(sessions')
               /\ id \in CacheIds(cache')]_vars

\* C34: when the last request in flight is handled by the server, and the
\* list is the one the last saveData was given, the remote store holds the
\* list.
C34_RemoteEqualsListWhenPushesDone ==
    [][\A b \in pushes :
           (ServerPost(b) /\ pushes' = {} /\ cache = JSONstringify(sessions))
               => remote'.sessions = sessions']_vars

\* C35: clearAllData leaves no session in the list, in the cache, in the
\* remote store or in a request on its way to it.
C35_WipeClearsEveryStore ==
    [][clearAllData =>
           /\ sessions' = <<>>
           /\ CacheIds(cache') = {}
           /\ remote'.sessions = <<>>
           /\ PushIds(pushes') = {}]_vars

\* The net minutes of the sessions of a list, added up.
RECURSIVE SumNetMinutes(_)
SumNetMinutes(list) ==
    IF list = <<>> THEN 0
    ELSE Head(list).netMinutes + SumNetMinutes(Tail(list))

\* C39: the totalHours of a request is the net time of the sessions of the
\* request, in hours.
C39_TotalHoursIsSum ==
    \A b \in pushes : b.totalHours * 60 = SumNetMinutes(b.sessions)

\* C36: the parentId of every file and of every folder is null or the id of
\* a folder of the folder list.
C36_ParentsExist ==
    /\ \A i \in DOMAIN uploadedFiles :
           uploadedFiles[i].parentId \in {Root} \cup FolderIds(folders)
    /\ \A i \in DOMAIN folders :
           folders[i].parentId \in {Root} \cup FolderIds(folders)

\* C37: the record built for a file of an upload has as parentId the folder
\* that was current when the upload was started.
C37_ParentIsFolderAtStart ==
    \A w \in batch.writing : w.fileObj.parentId = batch.startedIn

\* C38: deleteFolder returns without exhausting the stack, and the loop of
\* the breadcrumb, which follows the parents of the current folder, ends.
C38_FolderWalksTerminate ==
    /\ fileEvent.op # "deleteFolderOverflow"
    /\ ReachesRoot(currentFolder, folders, Len(folders))

----------------------------------------------------------------------------
\* The server (src/unnamed/part_001): registration and the /api/data
\* endpoints. A handler runs up to its next await in one step; the steps of
\* requests in progress interleave.

MaxRequests == 2

\* kv.get(key) !== null, kv.get(key) and kv.set(key, value) on a field of kv.
kvHas(field, key) == key \in DOMAIN kv[field]

kvSet(store, field, key, value) ==
    [store EXCEPT ![field] = [k \in DOMAIN @ \cup {key} |->
                                 IF k = key THEN value ELSE @[k]]]

\* email.toLowerCase() and username.toLowerCase() on the values used here.
toLowerCase(str) ==
    CASE str = "A@x.nl" -> "a@x.nl"
      [] str = "Cy" -> "cy"
      [] OTHER -> str

\* The record register stores for a user (part_001:140-148).
userData(userId, email, username) ==
    [userId |-> userId, email |-> toLowerCase(email), username |-> username,
     totalHours |-> 0, sessions |-> <<>>]

\* A value of the local variable user before it is assigned.
NoUser == userData(0, "", "")

\* Two accounts, registered one after the other.
StoreWithAccounts ==
    [user |-> <<userData(1, "ann@x.nl", "ann"), userData(2, "bob@x.nl", "bob")>>,
     email |-> [e \in {"ann@x.nl", "bob@x.nl"} |-> IF e = "ann@x.nl" THEN 1 ELSE 2],
     username |-> [u \in {"ann", "bob"} |-> IF u = "ann" THEN 1 ELSE 2]]

\* The number of accounts registered before the requests of this
\* specification.
Registered == Len(StoreWithAccounts.user)

\* The request bodies and tokens of this specification. A session posted by
\* a client names in its note the user whose token the client holds.
Emails == {"", "a@x.nl", "A@x.nl", "ann@x.nl"}
Usernames == {"cy", "Cy"}

\* jwt.sign in login (part_001:203-207) is the only source of tokens: a token
\* that verifies carries the userId of a stored user record.
Tokens ==
    {[present |-> FALSE, verifies |-> FALSE, userId |-> 0],
     [present |-> TRUE, verifies |-> FALSE, userId |-> 0]}
    \cup {[present |-> TRUE, verifies |-> TRUE, userId |-> id] :
             id \in DOMAIN kv.user}

Bodies(userId) ==
    {[isArray |-> FALSE, sessions |-> <<>>, totalHours |-> 0],
     [isArray |-> TRUE, sessions |-> <<>>, totalHours |-> 0],
     [isArray |-> TRUE, sessions |-> <<[id |-> 1, note |-> userId]>>,
      totalHours |-> 8]}

NoBody == [isArray |-> FALSE, sessions |-> <<>>, totalHours |-> 0]

\* A request the server has received: pc is the await it is at, "done" once
\* the response is sent; status and data are the response.
Request(n, ep, pc) ==
    [n |-> n, ep |-> ep, pc |-> pc, email |-> "", username |-> "",
     userId |-> 0, body |-> NoBody, user |-> NoUser,
     existingUserEmail |-> FALSE, existingUserUsername |-> FALSE,
     status |-> 0, data |-> <<>>]

Respond(r, status, data) == [r EXCEPT !.pc = "done", !.status = status, !.data = data]

Replace(r, q) == (requests \ {r}) \cup {q}

NextRequest == Cardinality(requests) + 1

\* POST /api/auth/register up to its first await (part_001:94-124): the
\* validation of the fields; the password is one that passes.
register(email, username) ==
    /\ NextRequest <= MaxRequests
    /\ LET r == [Request(NextRequest, "register", "getEmail")
                     EXCEPT !.email = email, !.username = username]
       IN requests' = requests \cup
              {IF email = "" THEN Respond(r, 400, <<>>) ELSE r}
    /\ UNCHANGED <<kv, currentUser, sessVars, netVars, fileVars>>

\* const existingUserEmail = await kv.get(...) (part_001:124).
registerGetEmail(r) ==
    /\ r.ep = "register" /\ r.pc = "getEmail"
    /\ requests' = Replace(r, [r EXCEPT !.pc = "getUsername",
                                  !.existingUserEmail =
                                      kvHas("email", toLowerCase(r.email))])
    /\ UNCHANGED <<kv, currentUser, sessVars, netVars, fileVars>>

\* const existingUserUsername = await kv.get(...), the two tests, the hash
\* and the userId (part_001:125-138); the userId is fresh.
registerGetUsername(r) ==
    /\ r.ep = "register" /\ r.pc = "getUsername"
    /\ LET q == [r EXCEPT !.existingUserUsername =
                              kvHas("username", toLowerCase(r.username))]
       IN requests' = Replace(r,
              IF q.existingUserEmail \/ q.existingUserUsername
              THEN Respond(q, 400, <<>>)
              ELSE [q EXCEPT !.pc = "setUser", !.userId = Registered + r.n])
    /\ UNCHANGED <<kv, currentUser, sessVars, netVars, fileVars>>

\* await kv.set(`user:${userId}`, userData) (part_001:150).
registerSetUser(r) ==
    /\ r.ep = "register" /\ r.pc = "setUser"
    /\ kv' = kvSet(kv, "user", r.userId, userData(r.userId, r.email, r.username))
    /\ requests' = Replace(r, [r EXCEPT !.pc = "setEmail"])
    /\ UNCHANGED <<currentUser, sessVars, netVars, fileVars>>

\* await kv.set(`user:email:...`, userId) (part_001:151).
registerSetEmail(r) ==
    /\ r.ep = "register" /\ r.pc = "setEmail"
    /\ kv' = kvSet(kv, "email", toLowerCase(r.email), r.userId)
    /\ requests' = Replace(r, [r EXCEPT !.pc = "setUsername"])
    /\ UNCHANGED <<currentUser, sessVars, netVars, fileVars>>

\* await kv.set(`user:username:...`, userId) and the 201 (part_001:152-157).
registerSetUsername(r) ==
    /\ r.ep = "register" /\ r.pc = "setUsername"
    /\ kv' = kvSet(kv, "username", toLowerCase(r.username), r.userId)
    /\ requests' = Replace(r, Respond(r, 201, <<>>))
    /\ UNCHANGED <<currentUser, sessVars, netVars, fileVars>>

\* authenticateToken (part_001:49-64) and a handler of /api/data up to its
\* await (part_001:242-244, 264-274, 318-320).
dataRequest(ep, token, body) ==
    /\ NextRequest <= MaxRequests
    /\ LET r == [Request(NextRequest, ep, "getUser")
                     EXCEPT !.userId = token.userId, !.body = body]
       IN requests' = requests \cup
              {IF ~token.present THEN Respond(r, 401, <<>>)
               ELSE IF ~token.verifies THEN Respond(r, 403, <<>>)
               ELSE IF ep = "POST" /\ ~body.isArray THEN Respond(r, 400, <<>>)
               ELSE r}
    /\ UNCHANGED <<kv, currentUser, sessVars, netVars, fileVars>>

\* dataGetUser reading the record of the first account, whatever the token.
dataGetUser_firstAccount(r) ==
    /\ r.ep \in {"GET", "POST", "DELETE"} /\ r.pc = "getUser"
    /\ requests' = Replace(r,
           IF ~kvHas("user", 1) THEN Respond(r, 404, <<>>)
           ELSE LET user == kv.user[1]
                IN CASE r.ep = "GET" -> Respond(r, 200, user.sessions)
                     [] r.ep = "POST" ->
                          [r EXCEPT !.pc = "setUser",
                                    !.user = [user EXCEPT
                                                 !.sessions = r.body.sessions,
                                                 !.totalHours = r.body.totalHours]]
                     [] r.ep = "DELETE" ->
                          [r EXCEPT !.pc = "setUser",
                                    !.user = [user EXCEPT !.sessions = <<>>,
                                                          !.totalHours = 0]])
    /\ UNCHANGED <<kv, currentUser, sessVars, netVars, fileVars>>

\* const user = await kv.get(`user:${req.userId}`) and what follows it: the
\* response of GET (part_001:244-256), the assignments to the local user of
\* POST (part_001:274-283) and of DELETE (part_001:320-329).
dataGetUser(r) ==
    /\ r.ep \in {"GET", "POST", "DELETE"} /\ r.pc = "getUser"
    /\ requests' = Replace(r,
           IF ~kvHas("user", r.userId) THEN Respond(r, 404, <<>>)
           ELSE LET user == kv.user[r.userId]
                IN CASE r.ep = "GET" -> Respond(r, 200, user.sessions)
                     [] r.ep = "POST" ->
                          [r EXCEPT !.pc = "setUser",
                                    !.user = [user EXCEPT
                                                 !.sessions = r.body.sessions,
                                                 !.totalHours = r.body.totalHours]]
                     [] r.ep = "DELETE" ->
                          [r EXCEPT !.pc = "setUser",
                                    !.user = [user EXCEPT !.sessions = <<>>,
                                                          !.totalHours = 0]])
    /\ UNCHANGED <<kv, currentUser, sessVars, netVars, fileVars>>

\* await kv.set(`user:${req.userId}`, user) and the response of POST
\* (part_001:286-288) and of DELETE (part_001:331-333).
dataSetUser(r) ==
    /\ r.ep \in {"POST", "DELETE"} /\ r.pc = "setUser"
    /\ kv' = kvSet(kv, "user", r.userId, r.user)
    /\ requests' = Replace(r, Respond(r, 200, <<>>))
    /\ UNCHANGED <<currentUser, sessVars, netVars, fileVars>>

ServerInit ==
    /\ SessionsAtRest
    /\ netArgs = <<>>
    /\ netResult = <<>>
    /\ FilesAtRest
    /\ currentUser = 1
    /\ kv = StoreWithAccounts
    /\ requests = {}

ServerNext ==
    \/ \E email \in Emails, username \in Usernames : register(email, username)
    \/ \E r \in requests : registerGetEmail(r)
    \/ \E r \in requests : registerGetUsername(r)
    \/ \E r \in requests : registerSetUser(r)
    \/ \E r \in requests : registerSetEmail(r)
    \/ \E r \in requests : registerSetUsername(r)
    \/ \E ep \in {"GET", "POST", "DELETE"}, token \in Tokens :
           \E body \in IF ep = "POST" THEN Bodies(token.userId) ELSE {NoBody} :
               dataRequest(ep, token, body)
    \/ \E r \in requests : dataGetUser(r)
    \/ \E r \in requests : dataSetUser(r)

ServerSpec == ServerInit /\ [][ServerNext]_vars

\* The user records stored with an email, and with a username.
RecordsWithEmail(email) ==
    {id \in DOMAIN kv.user : kv.user[id].email = email}

RecordsWithUsername(username) ==
    {id \in DOMAIN kv.user : toLowerCase(kv.user[id].username) = username}

DataStepOf(userId) ==
    \E r \in requests :
        /\ r.userId = userId
        /\ r.ep \in {"GET", "POST", "DELETE"}
        /\ dataGetUser(r) \/ dataSetUser(r)

\* The sessions are ones that clients holding a token of userId post.
PostedBy(list, userId) == \A i \in DOMAIN list : list[i].note = userId

\* C31: a request of /api/data authenticated as a user leaves the record of
\* every other user as it is; the record of a user holds, and a GET of the
\* user is answered with, sessions that clients of this user posted.
C31_DataRequestsIsolated ==
    /\ [][\A userId \in DOMAIN kv.user :
              DataStepOf(userId) =>
                  \A other \in DOMAIN kv.user \ {userId} :
                      kv'.user[other] = kv.user[other]]_vars
    /\ [](\A userId \in DOMAIN kv.user :
              PostedBy(kv.user[userId].sessions, userId))
    /\ [](\A r \in requests :
              (r.ep = "GET" /\ r.status = 200) => PostedBy(r.data, r.userId))

\* A GET of one user is answered with the sessions this user posted, while
\* the record of another user holds sessions of its own.
C31_Witness ==
    \E r \in requests :
        /\ r.ep = "GET" /\ r.status = 200 /\ r.userId = 1
        /\ r.data = kv.user[1].sessions
        /\ kv.user[2].sessions # <<>>

----------------------------------------------------------------------------
\* One device, two accounts. remote is the record of the user of the page;
\* kv keeps the records of the accounts while nobody is logged in, and
\* currentUser is NoUser.userId while the login page is shown.

\* The page is left with no request in flight: its variables are gone
\* (app.js:14-20), the record of its user is as the last POST left it.
LeavePage ==
    /\ currentUser # NoUser.userId
    /\ pushes = {}
    /\ load = Idle
    /\ kv' = [kv EXCEPT !.user[currentUser].sessions = remote.sessions,
                        !.user[currentUser].totalHours = remote.totalHours]
    /\ currentUser' = NoUser.userId
    /\ sessions' = <<>>
    /\ editingSessionId' = NoId
    /\ lastEvent' = "other"
    /\ UNCHANGED <<remote, pushes, load, nextId, uncaught, downloads, requests,
                   netVars, fileVars>>

\* handleLogout (app.js:159-177), the confirm dialog accepted: the token and
\* the cached sessions are removed and the login page is shown.
handleLogout ==
    /\ LeavePage
    /\ cache' = Absent

\* The token has expired (JWT_EXPIRY, part_001:22) when the page is loaded:
\* checkAuth shows the login page (app.js:46-50) and touches no key of
\* localStorage.
tokenExpired ==
    /\ LeavePage
    /\ UNCHANGED cache

\* handleLogin (part_000:71-93) stores the token of userId and shows the
\* page, whose DOMContentLoaded handler calls loadData (app.js:99-113).
handleLogin(userId) ==
    /\ currentUser = NoUser.userId
    /\ userId \in DOMAIN kv.user
    /\ currentUser' = userId
    /\ remote' = [sessions |-> kv.user[userId].sessions,
                  totalHours |-> kv.user[userId].totalHours]
    /\ load' = [st |-> "sent", sessions |-> <<>>, pending |-> {}]
    /\ lastEvent' = "other"
    /\ UNCHANGED <<sessions, editingSessionId, cache, pushes, nextId, uncaught,
                   downloads, kv, requests, netVars, fileVars>>

\* The first account is logged in on the page and has nothing stored.
DeviceInit ==
    /\ SessionsAtRest
    /\ netArgs = <<>>
    /\ netResult = <<>>
    /\ FilesAtRest
    /\ currentUser = 1
    /\ kv = StoreWithAccounts
    /\ requests = {}

\* The handlers of the page and of the login page. Sessions are added by
\* the first account only, so that every session is one of this account.
DeviceNext ==
    \/ \E f \in AddForms :
           /\ currentUser = 1
           /\ saveSession(f[1], f[2], f[3], f[4]) /\ UnderCap(MaxInflight)
    \/ \E id \in Ids(sessions) : openEditModal(id)
    \/ closeEditModal
    \/ \E f \in EditForms :
           updateSession(f[1], f[2], f[3], f[4]) /\ UnderCap(MaxInflight)
    \/ deleteCurrentSession /\ UnderCap(MaxInflight)
    \/ \E b \in pushes : ServerPost(b)
    \/ \E b \in pushes, status \in Failures : saveDataFailed(b, status)
    \/ ServerGet
    \/ loadDataOk
    \/ \E status \in Failures : loadDataFallback(status)
    \/ handleLogout
    \/ tokenExpired
    \/ \E userId \in DOMAIN kv.user : handleLogin(userId)

DeviceSpec == DeviceInit /\ [][DeviceNext]_vars

\* C40: the sessions of the first account are not in the list of the page,
\* nor in the record, of the second account, which adds none of its own.
C40_NoSessionsOfOtherUser ==
    currentUser = 2 =>
        /\ sessions = <<>>
        /\ remote.sessions = <<>>
        /\ PushIds(pushes) = {}

====
